---- MODULE Spec2Model ----
(***************************************************************************)
(* Brick-map voxel world (BrickMapWorld), its GPU mirror (the coarse-grid  *)
(* texture and the brick atlas texture of VoxelEngine) and the two         *)
(* synchronization paths uploadWorld / uploadDirtyBricks of src/engine.js. *)
(*                                                                         *)
(* Sizes are scaled down: the game creates a 128^3 coarse grid of 8^3      *)
(* bricks with a 96^3 atlas; the model uses a CoarseSize^3 grid of         *)
(* BRICK_SIZE^3 bricks and atlases of edge 1..MaxAtlasSize, so that both   *)
(* the mixed-radix slot mapping and the capacity overflow are reachable.   *)
(***************************************************************************)
EXTENDS Integers, Sequences, FiniteSets, TLC

\* ------------------------------------------------------------------ bounds
CoarseSize == 2
MaxAtlasSize == 2
MaxWrites == 3

\* The shader's brick edge (8 in the source, scaled to 2); createWorld's
\* default brickSize is the same number.
BRICK_SIZE == 2

VARIABLES
    coarseSize,         \* BrickMapWorld.coarseSize
    brickSize,          \* BrickMapWorld.brickSize
    atlasSize,          \* BrickMapWorld.atlasSize
    coarseGrid,         \* Uint32Array(coarseSize^3): 0 = empty, else brick id
    bricks,             \* Map<brickIndex, Uint8Array(brickSize^3 * 4)>
    nextBrickIndex,
    brickCount,
    voxelCount,
    dirtyBricks,        \* Set of brick ids, in insertion order
    coarseGridDirty,
    coarseGridTexture,  \* GPU: R32UI 3D texture, texel <<x,y,z>> -> id
    brickAtlasTexture,  \* GPU: RGBA8 3D texture, texel <<x,y,z>> -> <<r,g,b,a>>
    glError,            \* TRUE once a GL call has recorded INVALID_VALUE
    last,               \* the last call: [op, args, ret, slots]
    nWrites,            \* number of setVoxel calls made so far
    ref,                \* history: the value last written at each in-bounds
                        \* coordinate since createWorld / clear (a flat grid)
    touched,            \* history: the bricks written since the dirty state
                        \* was last emptied (drain, sync or clear)
    gamePhase,          \* SeaCaveGame: "init" until init() has called
                        \* uploadWorld, then "run"
    pass                \* the locals of an uploadDirtyBricks call in progress
                        \* (Null between calls)

worldVars == <<coarseSize, brickSize, atlasSize, coarseGrid, bricks, nextBrickIndex,
               brickCount, voxelCount, dirtyBricks, coarseGridDirty>>
gpuVars == <<coarseGridTexture, brickAtlasTexture, glError>>
ctlVars == <<gamePhase, pass>>
vars == <<worldVars, gpuVars, last, nWrites, ref, touched, ctlVars>>

\* ----------------------------------------------------------------- helpers
Null == <<>>
EmptyVoxel == <<0, 0, 0, 0>>

Range(s) == {s[i] : i \in DOMAIN s}

\* Mutant of SetAdd: an array push, which keeps duplicates.
SetAddAlways(s, e) == Append(s, e)

SetAdd(s, e) == IF e \in Range(s) THEN s ELSE Append(s, e)

\* JavaScript's %: the result takes the sign of the dividend.
JsRem(a, b) == IF a >= 0 THEN a % b ELSE -((-a) % b)

\* A store into a Uint8Array keeps the low 8 bits.
ToUint8(v) == v % 256

WorldSize == coarseSize * brickSize

BrickBytes == brickSize * brickSize * brickSize * 4

ZeroBrick == [i \in 0..(BrickBytes - 1) |-> 0]

AtlasVoxelSize == atlasSize * brickSize

MaxBricks == atlasSize * atlasSize * atlasSize

CoarseCells == (0..(coarseSize - 1)) \X (0..(coarseSize - 1)) \X (0..(coarseSize - 1))

LocalCells == (0..(brickSize - 1)) \X (0..(brickSize - 1)) \X (0..(brickSize - 1))

\* The in-bounds integer coordinates of the world.
WorldCoords == (0..(WorldSize - 1)) \X (0..(WorldSize - 1)) \X (0..(WorldSize - 1))

AtlasTexels == (0..(AtlasVoxelSize - 1)) \X (0..(AtlasVoxelSize - 1)) \X (0..(AtlasVoxelSize - 1))

\* --------------------------------------------------------- BrickMapWorld
GetCoarseIndex(cx, cy, cz) ==
    IF cx < 0 \/ cx >= coarseSize \/ cy < 0 \/ cy >= coarseSize \/ cz < 0 \/ cz >= coarseSize
    THEN -1
    ELSE cx + cy * coarseSize + cz * coarseSize * coarseSize

WorldToCoarse(x, y, z) == <<x \div brickSize, y \div brickSize, z \div brickSize>>

WorldToLocal(x, y, z) == <<JsRem(x, brickSize), JsRem(y, brickSize), JsRem(z, brickSize)>>

GetBrickLocalIndex(lx, ly, lz) == (lx + ly * brickSize + lz * brickSize * brickSize) * 4

OutOfWorld(x, y, z) ==
    x < 0 \/ x >= WorldSize \/ y < 0 \/ y >= WorldSize \/ z < 0 \/ z >= WorldSize

\* Mutant of GetOrCreateBrick: the existing brick of the cell is not looked
\* up, every call allocates.
GetOrCreateBrickAlways(cx, cy, cz) ==
    LET coarseIdx == GetCoarseIndex(cx, cy, cz) IN
    IF coarseIdx < 0
    THEN [index |-> 0, coarseGrid |-> coarseGrid, bricks |-> bricks,
          nextBrickIndex |-> nextBrickIndex, brickCount |-> brickCount,
          dirtyBricks |-> dirtyBricks, coarseGridDirty |-> coarseGridDirty]
    ELSE [index |-> nextBrickIndex,
          coarseGrid |-> [coarseGrid EXCEPT ![coarseIdx] = nextBrickIndex],
          bricks |-> [i \in DOMAIN bricks \cup {nextBrickIndex} |->
                         IF i = nextBrickIndex THEN ZeroBrick ELSE bricks[i]],
          nextBrickIndex |-> nextBrickIndex + 1,
          brickCount |-> brickCount + 1,
          dirtyBricks |-> SetAdd(dirtyBricks, nextBrickIndex),
          coarseGridDirty |-> TRUE]

\* Mutant of GetOrCreateBrick: the id counter is not advanced.
GetOrCreateBrickNoIncrement(cx, cy, cz) ==
    LET coarseIdx == GetCoarseIndex(cx, cy, cz) IN
    IF coarseIdx < 0
    THEN [index |-> 0, coarseGrid |-> coarseGrid, bricks |-> bricks,
          nextBrickIndex |-> nextBrickIndex, brickCount |-> brickCount,
          dirtyBricks |-> dirtyBricks, coarseGridDirty |-> coarseGridDirty]
    ELSE IF coarseGrid[coarseIdx] = 0
    THEN [index |-> nextBrickIndex,
          coarseGrid |-> [coarseGrid EXCEPT ![coarseIdx] = nextBrickIndex],
          bricks |-> [i \in DOMAIN bricks \cup {nextBrickIndex} |->
                         IF i = nextBrickIndex THEN ZeroBrick ELSE bricks[i]],
          nextBrickIndex |-> nextBrickIndex,
          brickCount |-> brickCount + 1,
          dirtyBricks |-> SetAdd(dirtyBricks, nextBrickIndex),
          coarseGridDirty |-> TRUE]
    ELSE [index |-> coarseGrid[coarseIdx], coarseGrid |-> coarseGrid, bricks |-> bricks,
          nextBrickIndex |-> nextBrickIndex, brickCount |-> brickCount,
          dirtyBricks |-> dirtyBricks, coarseGridDirty |-> coarseGridDirty]

\* The fields _getOrCreateBrick leaves behind, with the id it returns
\* (index = 0 stands for the null result).
GetOrCreateBrick(cx, cy, cz) ==
    LET coarseIdx == GetCoarseIndex(cx, cy, cz) IN
    IF coarseIdx < 0
    THEN [index |-> 0, coarseGrid |-> coarseGrid, bricks |-> bricks,
          nextBrickIndex |-> nextBrickIndex, brickCount |-> brickCount,
          dirtyBricks |-> dirtyBricks, coarseGridDirty |-> coarseGridDirty]
    ELSE IF coarseGrid[coarseIdx] = 0
    THEN [index |-> nextBrickIndex,
          coarseGrid |-> [coarseGrid EXCEPT ![coarseIdx] = nextBrickIndex],
          bricks |-> [i \in DOMAIN bricks \cup {nextBrickIndex} |->
                         IF i = nextBrickIndex THEN ZeroBrick ELSE bricks[i]],
          nextBrickIndex |-> nextBrickIndex + 1,
          brickCount |-> brickCount + 1,
          dirtyBricks |-> SetAdd(dirtyBricks, nextBrickIndex),
          coarseGridDirty |-> TRUE]
    ELSE [index |-> coarseGrid[coarseIdx], coarseGrid |-> coarseGrid, bricks |-> bricks,
          nextBrickIndex |-> nextBrickIndex, brickCount |-> brickCount,
          dirtyBricks |-> dirtyBricks, coarseGridDirty |-> coarseGridDirty]

\* Mutant of WriteVoxel: green and blue stored in each other's byte.
WriteVoxelSwapped(brick, idx, r, g, b, a) ==
    [brick EXCEPT ![idx] = ToUint8(r), ![idx + 1] = ToUint8(b),
                  ![idx + 2] = ToUint8(g), ![idx + 3] = ToUint8(a)]

\* Mutant of WriteVoxel: the bytes after the voxel's own four are zeroed too.
WriteVoxelClearsNext(brick, idx, r, g, b, a) ==
    [i \in DOMAIN brick |->
        IF i = idx THEN ToUint8(r)
        ELSE IF i = idx + 1 THEN ToUint8(g)
        ELSE IF i = idx + 2 THEN ToUint8(b)
        ELSE IF i = idx + 3 THEN ToUint8(a)
        ELSE IF i > idx + 3 /\ i < idx + 8 THEN 0
        ELSE brick[i]]

\* brick[idx..idx+3] = r, g, b, a
WriteVoxel(brick, idx, r, g, b, a) ==
    [brick EXCEPT ![idx] = ToUint8(r), ![idx + 1] = ToUint8(g),
                  ![idx + 2] = ToUint8(b), ![idx + 3] = ToUint8(a)]

\* Mutant of SetVoxel: an erase into a coarse cell without a brick returns
\* true without allocating.
SetVoxelSkipsErase(x, y, z, r, g, b, a) ==
    /\ nWrites < MaxWrites
    /\ nWrites' = nWrites + 1
    /\ UNCHANGED <<coarseSize, brickSize, atlasSize, voxelCount, gpuVars>>
    /\ IF OutOfWorld(x, y, z)
       THEN /\ last' = [op |-> "setVoxel", args |-> <<x, y, z, r, g, b, a>>,
                        ret |-> FALSE, slots |-> <<>>]
            /\ UNCHANGED <<coarseGrid, bricks, nextBrickIndex, brickCount, dirtyBricks,
                           coarseGridDirty>>
       ELSE LET c == WorldToCoarse(x, y, z)
                l == WorldToLocal(x, y, z)
                result == GetOrCreateBrick(c[1], c[2], c[3])
                idx == GetBrickLocalIndex(l[1], l[2], l[3])
            IN  IF result.index = 0
                THEN /\ last' = [op |-> "setVoxel", args |-> <<x, y, z, r, g, b, a>>,
                                 ret |-> FALSE, slots |-> <<>>]
                     /\ UNCHANGED <<coarseGrid, bricks, nextBrickIndex, brickCount,
                                    dirtyBricks, coarseGridDirty>>
                ELSE IF a = 0 /\ coarseGrid[GetCoarseIndex(c[1], c[2], c[3])] = 0
                THEN /\ last' = [op |-> "setVoxel", args |-> <<x, y, z, r, g, b, a>>,
                                 ret |-> TRUE, slots |-> <<>>]
                     /\ UNCHANGED <<coarseGrid, bricks, nextBrickIndex, brickCount,
                                    dirtyBricks, coarseGridDirty>>
                ELSE /\ coarseGrid' = result.coarseGrid
                     /\ nextBrickIndex' = result.nextBrickIndex
                     /\ brickCount' = result.brickCount
                     /\ coarseGridDirty' = result.coarseGridDirty
                     /\ bricks' = [result.bricks EXCEPT ![result.index] =
                                       WriteVoxel(@, idx, r, g, b, a)]
                     /\ dirtyBricks' = SetAdd(result.dirtyBricks, result.index)
                     /\ last' = [op |-> "setVoxel", args |-> <<x, y, z, r, g, b, a>>,
                                 ret |-> TRUE, slots |-> <<>>]

\* Mutant of SetVoxel: the coarse grid is marked dirty before the bounds check.
SetVoxelMarksFirst(x, y, z, r, g, b, a) ==
    /\ nWrites < MaxWrites
    /\ nWrites' = nWrites + 1
    /\ UNCHANGED <<coarseSize, brickSize, atlasSize, voxelCount, gpuVars>>
    /\ IF OutOfWorld(x, y, z)
       THEN /\ last' = [op |-> "setVoxel", args |-> <<x, y, z, r, g, b, a>>,
                        ret |-> FALSE, slots |-> <<>>]
            /\ coarseGridDirty' = TRUE
            /\ UNCHANGED <<coarseGrid, bricks, nextBrickIndex, brickCount, dirtyBricks>>
       ELSE LET c == WorldToCoarse(x, y, z)
                l == WorldToLocal(x, y, z)
                result == GetOrCreateBrick(c[1], c[2], c[3])
                idx == GetBrickLocalIndex(l[1], l[2], l[3])
            IN  IF result.index = 0
                THEN /\ last' = [op |-> "setVoxel", args |-> <<x, y, z, r, g, b, a>>,
                                 ret |-> FALSE, slots |-> <<>>]
                     /\ UNCHANGED <<coarseGrid, bricks, nextBrickIndex, brickCount,
                                    dirtyBricks, coarseGridDirty>>
                ELSE /\ coarseGrid' = result.coarseGrid
                     /\ nextBrickIndex' = result.nextBrickIndex
                     /\ brickCount' = result.brickCount
                     /\ coarseGridDirty' = result.coarseGridDirty
                     /\ bricks' = [result.bricks EXCEPT ![result.index] =
                                       WriteVoxel(@, idx, r, g, b, a)]
                     /\ dirtyBricks' = SetAdd(result.dirtyBricks, result.index)
                     /\ last' = [op |-> "setVoxel", args |-> <<x, y, z, r, g, b, a>>,
                                 ret |-> TRUE, slots |-> <<>>]

SetVoxel(x, y, z, r, g, b, a) ==
    /\ nWrites < MaxWrites
    /\ nWrites' = nWrites + 1
    /\ UNCHANGED <<coarseSize, brickSize, atlasSize, voxelCount, gpuVars>>
    /\ IF OutOfWorld(x, y, z)
       THEN /\ last' = [op |-> "setVoxel", args |-> <<x, y, z, r, g, b, a>>,
                        ret |-> FALSE, slots |-> <<>>]
            /\ UNCHANGED <<coarseGrid, bricks, nextBrickIndex, brickCount, dirtyBricks,
                           coarseGridDirty>>
       ELSE LET c == WorldToCoarse(x, y, z)
                l == WorldToLocal(x, y, z)
                result == GetOrCreateBrick(c[1], c[2], c[3])
                idx == GetBrickLocalIndex(l[1], l[2], l[3])
            IN  IF result.index = 0
                THEN /\ last' = [op |-> "setVoxel", args |-> <<x, y, z, r, g, b, a>>,
                                 ret |-> FALSE, slots |-> <<>>]
                     /\ UNCHANGED <<coarseGrid, bricks, nextBrickIndex, brickCount,
                                    dirtyBricks, coarseGridDirty>>
                ELSE /\ coarseGrid' = result.coarseGrid
                     /\ nextBrickIndex' = result.nextBrickIndex
                     /\ brickCount' = result.brickCount
                     /\ coarseGridDirty' = result.coarseGridDirty
                     /\ bricks' = [result.bricks EXCEPT ![result.index] =
                                       WriteVoxel(@, idx, r, g, b, a)]
                     /\ dirtyBricks' = SetAdd(result.dirtyBricks, result.index)
                     /\ last' = [op |-> "setVoxel", args |-> <<x, y, z, r, g, b, a>>,
                                 ret |-> TRUE, slots |-> <<>>]

GetVoxel(x, y, z) ==
    IF OutOfWorld(x, y, z) THEN Null
    ELSE LET c == WorldToCoarse(x, y, z)
             coarseIdx == GetCoarseIndex(c[1], c[2], c[3])
         IN  IF coarseIdx < 0 THEN Null
             ELSE LET brickIndex == coarseGrid[coarseIdx] IN
                  IF brickIndex = 0 THEN EmptyVoxel
                  ELSE IF brickIndex \notin DOMAIN bricks THEN Null
                  ELSE LET l == WorldToLocal(x, y, z)
                           idx == GetBrickLocalIndex(l[1], l[2], l[3])
                           brick == bricks[brickIndex]
                       IN  <<brick[idx], brick[idx + 1], brick[idx + 2], brick[idx + 3]>>

\* Mutant of Clear: the dirty set survives the reset.
ClearKeepsDirty ==
    /\ coarseGrid' = [i \in DOMAIN coarseGrid |-> 0]
    /\ bricks' = <<>>
    /\ nextBrickIndex' = 1
    /\ voxelCount' = 0
    /\ brickCount' = 0
    /\ dirtyBricks' = dirtyBricks
    /\ coarseGridDirty' = TRUE
    /\ last' = [op |-> "clear", args |-> <<>>, ret |-> <<>>, slots |-> <<>>]
    /\ UNCHANGED <<coarseSize, brickSize, atlasSize, gpuVars, nWrites>>

\* Mutant of Clear: the coarse grid is not reset.
ClearKeepsGrid ==
    /\ coarseGrid' = coarseGrid
    /\ bricks' = <<>>
    /\ nextBrickIndex' = 1
    /\ voxelCount' = 0
    /\ brickCount' = 0
    /\ dirtyBricks' = <<>>
    /\ coarseGridDirty' = TRUE
    /\ last' = [op |-> "clear", args |-> <<>>, ret |-> <<>>, slots |-> <<>>]
    /\ UNCHANGED <<coarseSize, brickSize, atlasSize, gpuVars, nWrites>>

\* Mutant of Clear: the brick table and the id counter survive.
ClearKeepsBricks ==
    /\ coarseGrid' = [i \in DOMAIN coarseGrid |-> 0]
    /\ bricks' = bricks
    /\ nextBrickIndex' = nextBrickIndex
    /\ voxelCount' = 0
    /\ brickCount' = 0
    /\ dirtyBricks' = <<>>
    /\ coarseGridDirty' = TRUE
    /\ last' = [op |-> "clear", args |-> <<>>, ret |-> <<>>, slots |-> <<>>]
    /\ UNCHANGED <<coarseSize, brickSize, atlasSize, gpuVars, nWrites>>

\* Mutant of Clear: the coarse-grid texture is zeroed at once.
ClearResetsMirror ==
    /\ coarseGrid' = [i \in DOMAIN coarseGrid |-> 0]
    /\ bricks' = <<>>
    /\ nextBrickIndex' = 1
    /\ voxelCount' = 0
    /\ brickCount' = 0
    /\ dirtyBricks' = <<>>
    /\ coarseGridDirty' = TRUE
    /\ coarseGridTexture' = [c \in DOMAIN coarseGridTexture |-> 0]
    /\ last' = [op |-> "clear", args |-> <<>>, ret |-> <<>>, slots |-> <<>>]
    /\ UNCHANGED <<coarseSize, brickSize, atlasSize, brickAtlasTexture, glError, nWrites>>

\* Mutant of Clear: the coarse grid is not marked dirty.
ClearNotDirty ==
    /\ coarseGrid' = [i \in DOMAIN coarseGrid |-> 0]
    /\ bricks' = <<>>
    /\ nextBrickIndex' = 1
    /\ voxelCount' = 0
    /\ brickCount' = 0
    /\ dirtyBricks' = <<>>
    /\ coarseGridDirty' = FALSE
    /\ last' = [op |-> "clear", args |-> <<>>, ret |-> <<>>, slots |-> <<>>]
    /\ UNCHANGED <<coarseSize, brickSize, atlasSize, gpuVars, nWrites>>

Clear ==
    /\ coarseGrid' = [i \in DOMAIN coarseGrid |-> 0]
    /\ bricks' = <<>>
    /\ nextBrickIndex' = 1
    /\ voxelCount' = 0
    /\ brickCount' = 0
    /\ dirtyBricks' = <<>>
    /\ coarseGridDirty' = TRUE
    /\ last' = [op |-> "clear", args |-> <<>>, ret |-> <<>>, slots |-> <<>>]
    /\ UNCHANGED <<coarseSize, brickSize, atlasSize, gpuVars, nWrites>>

\* Mutant of GetBrickAtlasPos: the y component is not reduced modulo the
\* atlas edge.
GetBrickAtlasPosNoWrap(brickIndex) ==
    LET idx == brickIndex - 1 IN
    <<JsRem(idx, atlasSize),
      idx \div atlasSize,
      idx \div (atlasSize * atlasSize)>>

\* Mutant of GetBrickAtlasPos: the id is not converted to 0-based.
GetBrickAtlasPosOneBased(brickIndex) ==
    LET idx == brickIndex IN
    <<JsRem(idx, atlasSize),
      JsRem(idx \div atlasSize, atlasSize),
      idx \div (atlasSize * atlasSize)>>

GetBrickAtlasPos(brickIndex) ==
    LET idx == brickIndex - 1 IN
    <<JsRem(idx, atlasSize),
      JsRem(idx \div atlasSize, atlasSize),
      idx \div (atlasSize * atlasSize)>>

GetDirtyBricksAndClear ==
    /\ last' = [op |-> "getDirtyBricksAndClear", args |-> <<>>,
                ret |-> [bricks |-> dirtyBricks, coarseGridDirty |-> coarseGridDirty],
                slots |-> <<>>]
    /\ dirtyBricks' = <<>>
    /\ coarseGridDirty' = FALSE
    /\ UNCHANGED <<coarseSize, brickSize, atlasSize, coarseGrid, bricks, nextBrickIndex,
                   brickCount, voxelCount, gpuVars, nWrites>>

CountVoxels ==
    LET occ == {p \in (DOMAIN bricks) \X (0..(brickSize * brickSize * brickSize - 1)) :
                    bricks[p[1]][p[2] * 4 + 3] > 0}
    IN  Cardinality(occ)

\* The slot buildAtlas computes for a brick: ax, ay, az.
BuildAtlasPos(brickIndex) ==
    LET idx == brickIndex - 1 IN
    <<JsRem(idx, atlasSize),
      JsRem(idx \div atlasSize, atlasSize),
      idx \div (atlasSize * atlasSize)>>

\* Mutant of CopyBrickToAtlas: the id is not converted to 0-based.
CopyBrickToAtlasOneBased(data, brickIndex, brickData) ==
    LET idx == brickIndex
        ax == JsRem(idx, atlasSize)
        ay == JsRem(idx \div atlasSize, atlasSize)
        az == idx \div (atlasSize * atlasSize)
        avs == AtlasVoxelSize
    IN  [d \in DOMAIN data |->
            LET t == d \div 4
                atlasX == t % avs
                atlasY == (t \div avs) % avs
                atlasZ == t \div (avs * avs)
                lx == atlasX - ax * brickSize
                ly == atlasY - ay * brickSize
                lz == atlasZ - az * brickSize
            IN  IF /\ lx >= 0 /\ lx < brickSize
                   /\ ly >= 0 /\ ly < brickSize
                   /\ lz >= 0 /\ lz < brickSize
                THEN brickData[(lx + ly * brickSize + lz * brickSize * brickSize) * 4 + (d % 4)]
                ELSE data[d]]

\* buildAtlas's copy loop for one brick: every destination byte atlasX = ax *
\* brickSize + lx (and likewise y, z) takes the brick's byte at (lx, ly, lz).
CopyBrickToAtlas(data, brickIndex, brickData) ==
    LET ax == BuildAtlasPos(brickIndex)[1]
        ay == BuildAtlasPos(brickIndex)[2]
        az == BuildAtlasPos(brickIndex)[3]
        avs == AtlasVoxelSize
    IN  [d \in DOMAIN data |->
            LET t == d \div 4
                atlasX == t % avs
                atlasY == (t \div avs) % avs
                atlasZ == t \div (avs * avs)
                lx == atlasX - ax * brickSize
                ly == atlasY - ay * brickSize
                lz == atlasZ - az * brickSize
            IN  IF /\ lx >= 0 /\ lx < brickSize
                   /\ ly >= 0 /\ ly < brickSize
                   /\ lz >= 0 /\ lz < brickSize
                THEN brickData[(lx + ly * brickSize + lz * brickSize * brickSize) * 4 + (d % 4)]
                ELSE data[d]]

RECURSIVE BuildAtlasFrom(_, _)
BuildAtlasFrom(data, ids) ==
    IF ids = {} THEN data
    ELSE LET brickIndex == CHOOSE i \in ids : \A j \in ids : i <= j IN
         IF brickIndex > MaxBricks
         THEN BuildAtlasFrom(data, ids \ {brickIndex})
         ELSE BuildAtlasFrom(CopyBrickToAtlas(data, brickIndex, bricks[brickIndex]),
                             ids \ {brickIndex})

BuildAtlas ==
    BuildAtlasFrom([d \in 0..(AtlasVoxelSize * AtlasVoxelSize * AtlasVoxelSize * 4 - 1) |-> 0],
                   DOMAIN bricks)

\* ------------------------------------------------------------ WebGL2 model
\* texImage3D / texSubImage3D of the whole coarse grid: texel (x, y, z) takes
\* element x + y * w + z * w * h of the Uint32Array.
CoarseTexImage(grid) ==
    [t \in CoarseCells |-> grid[t[1] + t[2] * coarseSize + t[3] * coarseSize * coarseSize]]

\* texSubImage3D of the whole atlas from an RGBA byte array.
AtlasTexImage(data) ==
    [t \in AtlasTexels |->
        LET i == (t[1] + t[2] * AtlasVoxelSize + t[3] * AtlasVoxelSize * AtlasVoxelSize) * 4
        IN  <<data[i], data[i + 1], data[i + 2], data[i + 3]>>]

\* texSubImage3D rejects a region that leaves the texture (INVALID_VALUE, no
\* texel written).
SubImageInRange(ox, oy, oz, size) ==
    /\ ox >= 0 /\ ox + size <= AtlasVoxelSize
    /\ oy >= 0 /\ oy + size <= AtlasVoxelSize
    /\ oz >= 0 /\ oz + size <= AtlasVoxelSize

TexSubImageBrick(tex, ox, oy, oz, size, data) ==
    IF ~SubImageInRange(ox, oy, oz, size) THEN tex
    ELSE [t \in DOMAIN tex |->
            LET lx == t[1] - ox
                ly == t[2] - oy
                lz == t[3] - oz
            IN  IF /\ lx >= 0 /\ lx < size
                   /\ ly >= 0 /\ ly < size
                   /\ lz >= 0 /\ lz < size
                THEN LET i == (lx + ly * size + lz * size * size) * 4
                     IN  <<data[i], data[i + 1], data[i + 2], data[i + 3]>>
                ELSE tex[t]]

\* In WebGL 2 a texelFetch outside the texture returns zero.
TexelFetchAtlas(tex, t) ==
    IF t \in DOMAIN tex THEN tex[t] ELSE <<0, 0, 0, 0>>

\* ------------------------------------------------------------- VoxelEngine
\* Mutant of UploadWorld: the atlas is not rebuilt.
UploadWorldKeepsAtlas ==
    /\ coarseGridTexture' = CoarseTexImage(coarseGrid)
    /\ brickAtlasTexture' = brickAtlasTexture
    /\ dirtyBricks' = <<>>
    /\ coarseGridDirty' = FALSE
    /\ voxelCount' = CountVoxels
    /\ last' = [op |-> "uploadWorld", args |-> <<>>, ret |-> <<>>, slots |-> <<>>]
    /\ UNCHANGED <<coarseSize, brickSize, atlasSize, coarseGrid, bricks, nextBrickIndex,
                   brickCount, glError, nWrites>>

UploadWorld ==
    /\ coarseGridTexture' = CoarseTexImage(coarseGrid)
    /\ brickAtlasTexture' = AtlasTexImage(BuildAtlas)
    /\ dirtyBricks' = <<>>
    /\ coarseGridDirty' = FALSE
    /\ voxelCount' = CountVoxels
    /\ last' = [op |-> "uploadWorld", args |-> <<>>, ret |-> <<>>, slots |-> <<>>]
    /\ UNCHANGED <<coarseSize, brickSize, atlasSize, coarseGrid, bricks, nextBrickIndex,
                   brickCount, glError, nWrites>>

\* Mutant of UploadBricks: the loop ends after the first dirty brick.
UploadBricksFirstOnly(acc, dirty) ==
    IF dirty = <<>> THEN acc
    ELSE LET brickIndex == Head(dirty) IN
         IF brickIndex \notin DOMAIN bricks
         THEN acc
         ELSE LET pos == GetBrickAtlasPos(brickIndex)
                  atlasX == pos[1] * brickSize
                  atlasY == pos[2] * brickSize
                  atlasZ == pos[3] * brickSize
              IN  [tex |-> TexSubImageBrick(acc.tex, atlasX, atlasY, atlasZ, brickSize,
                                            bricks[brickIndex]),
                   err |-> acc.err \/ ~SubImageInRange(atlasX, atlasY, atlasZ, brickSize),
                   slots |-> Append(acc.slots, pos)]

\* The dirty-brick loop of uploadDirtyBricks: the atlas texture, the error
\* flag and the atlas slots handed to texSubImage3D, brick after brick.
RECURSIVE UploadBricks(_, _)
UploadBricks(acc, dirty) ==
    IF dirty = <<>> THEN acc
    ELSE LET brickIndex == Head(dirty) IN
         IF brickIndex \notin DOMAIN bricks
         THEN UploadBricks(acc, Tail(dirty))
         ELSE LET pos == GetBrickAtlasPos(brickIndex)
                  atlasX == pos[1] * brickSize
                  atlasY == pos[2] * brickSize
                  atlasZ == pos[3] * brickSize
              IN  UploadBricks(
                      [tex |-> TexSubImageBrick(acc.tex, atlasX, atlasY, atlasZ, brickSize,
                                                bricks[brickIndex]),
                       err |-> acc.err \/ ~SubImageInRange(atlasX, atlasY, atlasZ, brickSize),
                       slots |-> Append(acc.slots, pos)],
                      Tail(dirty))

UploadDirtyBricks ==
    LET dirty == dirtyBricks
        coarseDirty == coarseGridDirty
    IN  /\ dirtyBricks' = <<>>
        /\ coarseGridDirty' = FALSE
        /\ UNCHANGED <<coarseSize, brickSize, atlasSize, coarseGrid, bricks, nextBrickIndex,
                       brickCount, nWrites>>
        /\ IF Len(dirty) = 0 /\ ~coarseDirty
           THEN /\ last' = [op |-> "uploadDirtyBricks", args |-> <<>>, ret |-> 0,
                            slots |-> <<>>, coarse |-> FALSE]
                /\ UNCHANGED <<voxelCount, gpuVars>>
           ELSE LET up == UploadBricks([tex |-> brickAtlasTexture, err |-> glError,
                                        slots |-> <<>>], dirty)
                IN  /\ coarseGridTexture' = IF coarseDirty THEN CoarseTexImage(coarseGrid)
                                            ELSE coarseGridTexture
                    /\ brickAtlasTexture' = up.tex
                    /\ glError' = up.err
                    /\ voxelCount' = CountVoxels
                    /\ last' = [op |-> "uploadDirtyBricks", args |-> <<>>,
                                ret |-> Len(dirty), slots |-> up.slots,
                                coarse |-> coarseDirty]

\* uploadDirtyBricks statement by statement, for callers that write while a
\* call is in progress. pass holds the call's locals: the drained ids still to
\* copy, the drained coarse flag, the return value, the slots written so far
\* and the write counts that tell whether a setVoxel landed during the call
\* (start) or during the call before it (prev).
\*
\* getDirtyBricksAndClear and the early return.
UploadDirtyBricksBegin ==
    /\ pass = Null
    /\ dirtyBricks' = <<>>
    /\ coarseGridDirty' = FALSE
    /\ UNCHANGED <<coarseSize, brickSize, atlasSize, coarseGrid, bricks, nextBrickIndex,
                   brickCount, voxelCount, gpuVars, nWrites, ref, touched, gamePhase>>
    /\ LET prev == IF last.op = "uploadDirtyBricks" THEN last.landed ELSE 0 IN
       IF Len(dirtyBricks) = 0 /\ ~coarseGridDirty
       THEN /\ pass' = Null
            /\ last' = [op |-> "uploadDirtyBricks", args |-> <<>>, ret |-> 0,
                        slots |-> <<>>, coarse |-> FALSE, landed |-> 0, prev |-> prev]
       ELSE /\ pass' = [pc |-> "coarse", dirtyBricks |-> dirtyBricks,
                        coarseGridDirty |-> coarseGridDirty, ret |-> Len(dirtyBricks),
                        slots |-> <<>>, start |-> nWrites, prev |-> prev]
            /\ last' = [op |-> "getDirtyBricksAndClear", args |-> <<>>,
                        ret |-> [bricks |-> dirtyBricks,
                                 coarseGridDirty |-> coarseGridDirty],
                        slots |-> <<>>]

\* if (coarseGridDirty) texSubImage3D(coarseGridTexture, world.coarseGrid):
\* the grid is read when the statement runs.
UploadDirtyBricksCoarse ==
    /\ pass # Null
    /\ pass.pc = "coarse"
    /\ coarseGridTexture' = IF pass.coarseGridDirty THEN CoarseTexImage(coarseGrid)
                            ELSE coarseGridTexture
    /\ pass' = [pass EXCEPT !.pc = "copy"]
    /\ UNCHANGED <<worldVars, brickAtlasTexture, glError, last, nWrites, ref, touched,
                   gamePhase>>

\* One iteration of the loop over the drained ids: the payload is read from
\* world.bricks when the iteration runs.
UploadDirtyBricksCopy ==
    /\ pass # Null
    /\ pass.pc = "copy"
    /\ pass.dirtyBricks # <<>>
    /\ LET up == UploadBricks([tex |-> brickAtlasTexture, err |-> glError,
                               slots |-> pass.slots], <<Head(pass.dirtyBricks)>>)
       IN  /\ brickAtlasTexture' = up.tex
           /\ glError' = up.err
           /\ pass' = [pass EXCEPT !.dirtyBricks = Tail(@), !.slots = up.slots]
    /\ UNCHANGED <<worldVars, coarseGridTexture, last, nWrites, ref, touched, gamePhase>>

\* Mutant of UploadDirtyBricksEnd: the dirty set and the coarse flag are
\* cleared once more when the loop is done.
UploadDirtyBricksEndClears ==
    /\ pass # Null
    /\ pass.pc = "copy"
    /\ pass.dirtyBricks = <<>>
    /\ voxelCount' = CountVoxels
    /\ dirtyBricks' = <<>>
    /\ coarseGridDirty' = FALSE
    /\ last' = [op |-> "uploadDirtyBricks", args |-> <<>>, ret |-> pass.ret,
                slots |-> pass.slots, coarse |-> pass.coarseGridDirty,
                landed |-> nWrites - pass.start, prev |-> pass.prev]
    /\ pass' = Null
    /\ UNCHANGED <<coarseSize, brickSize, atlasSize, coarseGrid, bricks, nextBrickIndex,
                   brickCount, gpuVars, nWrites, ref, touched, gamePhase>>

\* world.countVoxels() and the return.
UploadDirtyBricksEnd ==
    /\ pass # Null
    /\ pass.pc = "copy"
    /\ pass.dirtyBricks = <<>>
    /\ voxelCount' = CountVoxels
    /\ last' = [op |-> "uploadDirtyBricks", args |-> <<>>, ret |-> pass.ret,
                slots |-> pass.slots, coarse |-> pass.coarseGridDirty,
                landed |-> nWrites - pass.start, prev |-> pass.prev]
    /\ pass' = Null
    /\ UNCHANGED <<coarseSize, brickSize, atlasSize, coarseGrid, bricks, nextBrickIndex,
                   brickCount, dirtyBricks, coarseGridDirty, gpuVars, nWrites, ref,
                   touched, gamePhase>>

\* ------------------------------------------------------- shader-side reads
GetBrickIndex(coarsePos) ==
    IF \/ coarsePos[1] < 0 \/ coarsePos[2] < 0 \/ coarsePos[3] < 0
       \/ coarsePos[1] >= coarseSize \/ coarsePos[2] >= coarseSize
       \/ coarsePos[3] >= coarseSize
    THEN 0
    ELSE coarseGridTexture[coarsePos]

\* Mutant of BrickIndexToAtlasPos: the z component wraps at the atlas depth.
BrickIndexToAtlasPosWrapped(brickIndex) ==
    LET idx == brickIndex - 1
        atlasWidth == atlasSize
        atlasHeight == atlasSize
    IN  <<idx % atlasWidth, (idx \div atlasWidth) % atlasHeight,
          (idx \div (atlasWidth * atlasHeight)) % atlasHeight>>

BrickIndexToAtlasPos(brickIndex) ==
    LET idx == brickIndex - 1
        atlasWidth == atlasSize
        atlasHeight == atlasSize
    IN  <<idx % atlasWidth, (idx \div atlasWidth) % atlasHeight,
          idx \div (atlasWidth * atlasHeight)>>

GetVoxelFromBrick(brickIndex, localPos) ==
    IF brickIndex = 0 THEN <<0, 0, 0, 0>>
    ELSE LET atlasPos == BrickIndexToAtlasPos(brickIndex)
             texelPos == <<atlasPos[1] * BRICK_SIZE + localPos[1],
                           atlasPos[2] * BRICK_SIZE + localPos[2],
                           atlasPos[3] * BRICK_SIZE + localPos[3]>>
         IN  TexelFetchAtlas(brickAtlasTexture, texelPos)

\* ------------------------------------------------------------- ray marcher
\* The shader computes in floats; the model computes the same expressions
\* exactly, on integers that count thousandths: a position 5.5 is 5500 and
\* the shader's 0.001 is 1. Ray directions have components -1, 0 or 1, so a
\* ray parameter t is counted in thousandths as well and x / d = x * d for a
\* nonzero component d.
Scale == 1000

\* The reciprocal of the magnitude a zero direction component is clamped to.
\* The source clamps to 1e-8; 1e-5 keeps every product within 32 bits and
\* decides every comparison as 1e-8 does as long as coordinates are multiples
\* of 0.001 of magnitude below 10, which the rays of this model are.
SafeDirInv == 100000

\* The coarse loop bound of traceRay and of traceShadow.
MaxCoarseSteps == 512
MaxShadowSteps == 64

Max2(a, b) == IF a >= b THEN a ELSE b

Min2(a, b) == IF a <= b THEN a ELSE b

Abs(a) == IF a >= 0 THEN a ELSE -a

Clamp(v, lo, hi) == Min2(Max2(v, lo), hi)

Vec3(F(_)) == <<F(1), F(2), F(3)>>

\* x / safeDir for a direction component d: safeDir is d, or +1e-8 for d = 0.
OverSafeDir(x, d) == IF d = 0 THEN x * SafeDirInv ELSE x * d

\* Mutant of StepOf: the sign of the direction is ignored.
StepOfAlwaysForward(d) == 1

\* step: safeDir >= 0 ? 1 : -1.
StepOf(d) == IF d >= 0 THEN 1 ELSE -1

IntersectAABB(rayOrigin, rayDir, boxMin, boxMax) ==
    LET tMin == Vec3(LAMBDA k : OverSafeDir(boxMin[k] - rayOrigin[k], rayDir[k]))
        tMax == Vec3(LAMBDA k : OverSafeDir(boxMax[k] - rayOrigin[k], rayDir[k]))
        t1 == Vec3(LAMBDA k : Min2(tMin[k], tMax[k]))
        t2 == Vec3(LAMBDA k : Max2(tMin[k], tMax[k]))
        tNear == Max2(Max2(t1[1], t1[2]), t1[3])
        tFar == Min2(Min2(t2[1], t2[2]), t2[3])
    IN  <<tNear, tFar>>

\* Mutant of DdaAxis: the comparisons are reversed, the DDA advances on the
\* axis whose boundary is farthest.
DdaAxisFarthest(sideDist) ==
    IF sideDist[1] > sideDist[2]
    THEN (IF sideDist[1] > sideDist[3] THEN 1 ELSE 3)
    ELSE (IF sideDist[2] > sideDist[3] THEN 2 ELSE 3)

\* The axis the DDA advances on (1 = x, 2 = y, 3 = z): the nested strict
\* comparisons of sideDist, ties going to the later axis.
DdaAxis(sideDist) ==
    IF sideDist[1] < sideDist[2]
    THEN (IF sideDist[1] < sideDist[3] THEN 1 ELSE 3)
    ELSE (IF sideDist[2] < sideDist[3] THEN 2 ELSE 3)

\* isWater: each colour channel within 0.02 of u_waterColor; channels are
\* bytes and waterColor is counted in 255ths here.
IsWater(voxel, waterColor) ==
    \A k \in 1..3 : Abs(voxel[k] - waterColor[k]) * 100 < 2 * 255

\* Mutant of BrickLoop: every water voxel overwrites the recorded crossing.
RECURSIVE BrickLoopLastWater(_, _, _, _, _, _)
BrickLoopLastWater(b, i, mapPos, sideDist, side, result) ==
    IF i >= BRICK_SIZE * 3
    THEN [found |-> FALSE, result |-> result, voxels |-> i]
    ELSE
    LET voxel == GetVoxelFromBrick(b.brickIndex, mapPos)
        isWater == IsWater(voxel, b.waterColor)
        worldPos == Vec3(LAMBDA k : b.brickMin[k] + mapPos[k])
        \* dir.y = 0 is clamped to +1e-8: the first water branch, and the
        \* Euclidean length, kept as its square
        waterDistance ==
            IF b.rayDir[2] > 0
            THEN [kind |-> "t",
                  value |-> OverSafeDir(worldPos[2] * Scale - b.rayOrigin[2], b.rayDir[2])]
            ELSE IF b.rayDir[2] < 0
            THEN [kind |-> "t",
                  value |-> OverSafeDir((worldPos[2] + 1) * Scale - b.rayOrigin[2],
                                        b.rayDir[2])]
            ELSE LET d == Vec3(LAMBDA k : worldPos[k] * Scale + (Scale \div 2)
                                            - b.rayOrigin[k])
                 IN  [kind |-> "length", squared |-> d[1] * d[1] + d[2] * d[2] + d[3] * d[3]]
        afterWater ==
            IF voxel[4] > 0 /\ isWater
            THEN [result EXCEPT !.passedThroughWater = TRUE, !.waterDistance = waterDistance]
            ELSE result
    IN  IF voxel[4] > 0 /\ ~isWater
        THEN [found |-> TRUE,
              result |-> [result EXCEPT
                  !.hit = TRUE,
                  !.color = voxel,
                  !.pos = worldPos,
                  !.normal = Vec3(LAMBDA k : IF k = side + 1 THEN -b.step[k] ELSE 0),
                  !.distance = OverSafeDir(
                      worldPos[side + 1] * Scale - b.rayOrigin[side + 1]
                          + ((1 - b.step[side + 1]) \div 2) * Scale,
                      b.rayDir[side + 1])],
              voxels |-> i + 1]
        ELSE LET axis == DdaAxis(sideDist)
                 sideDist2 == [sideDist EXCEPT ![axis] = @ + b.deltaDist[axis]]
                 mapPos2 == [mapPos EXCEPT ![axis] = @ + b.step[axis]]
             IN  IF \E k \in 1..3 : mapPos2[k] < 0 \/ mapPos2[k] >= BRICK_SIZE
                 THEN [found |-> FALSE, result |-> afterWater, voxels |-> i + 1]
                 ELSE BrickLoopLastWater(b, i + 1, mapPos2, sideDist2, axis - 1, afterWater)

\* Mutant of BrickLoop: a water voxel met by a falling ray is a hit.
RECURSIVE BrickLoopWaterStops(_, _, _, _, _, _)
BrickLoopWaterStops(b, i, mapPos, sideDist, side, result) ==
    IF i >= BRICK_SIZE * 3
    THEN [found |-> FALSE, result |-> result, voxels |-> i]
    ELSE
    LET voxel == GetVoxelFromBrick(b.brickIndex, mapPos)
        isWater == IsWater(voxel, b.waterColor)
        worldPos == Vec3(LAMBDA k : b.brickMin[k] + mapPos[k])
        \* dir.y = 0 is clamped to +1e-8: the first water branch, and the
        \* Euclidean length, kept as its square
        waterDistance ==
            IF b.rayDir[2] > 0
            THEN [kind |-> "t",
                  value |-> OverSafeDir(worldPos[2] * Scale - b.rayOrigin[2], b.rayDir[2])]
            ELSE IF b.rayDir[2] < 0
            THEN [kind |-> "t",
                  value |-> OverSafeDir((worldPos[2] + 1) * Scale - b.rayOrigin[2],
                                        b.rayDir[2])]
            ELSE LET d == Vec3(LAMBDA k : worldPos[k] * Scale + (Scale \div 2)
                                            - b.rayOrigin[k])
                 IN  [kind |-> "length", squared |-> d[1] * d[1] + d[2] * d[2] + d[3] * d[3]]
        afterWater ==
            IF voxel[4] > 0 /\ isWater /\ ~result.passedThroughWater
            THEN [result EXCEPT !.passedThroughWater = TRUE, !.waterDistance = waterDistance]
            ELSE result
    IN  IF voxel[4] > 0 /\ (~isWater \/ b.rayDir[2] < 0)
        THEN [found |-> TRUE,
              result |-> [result EXCEPT
                  !.hit = TRUE,
                  !.color = voxel,
                  !.pos = worldPos,
                  !.normal = Vec3(LAMBDA k : IF k = side + 1 THEN -b.step[k] ELSE 0),
                  !.distance = OverSafeDir(
                      worldPos[side + 1] * Scale - b.rayOrigin[side + 1]
                          + ((1 - b.step[side + 1]) \div 2) * Scale,
                      b.rayDir[side + 1])],
              voxels |-> i + 1]
        ELSE LET axis == DdaAxis(sideDist)
                 sideDist2 == [sideDist EXCEPT ![axis] = @ + b.deltaDist[axis]]
                 mapPos2 == [mapPos EXCEPT ![axis] = @ + b.step[axis]]
             IN  IF \E k \in 1..3 : mapPos2[k] < 0 \/ mapPos2[k] >= BRICK_SIZE
                 THEN [found |-> FALSE, result |-> afterWater, voxels |-> i + 1]
                 ELSE BrickLoopWaterStops(b, i + 1, mapPos2, sideDist2, axis - 1, afterWater)

\* The voxel loop of traceBrick. b holds what the loop does not change: the
\* brick id, the ray, the brick's minimum corner in voxels, step, deltaDist
\* and u_waterColor. The value is traceBrick's return value (found), the
\* HitResult it leaves behind, and the number of voxels it examined.
RECURSIVE BrickLoop(_, _, _, _, _, _)
BrickLoop(b, i, mapPos, sideDist, side, result) ==
    IF i >= BRICK_SIZE * 3
    THEN [found |-> FALSE, result |-> result, voxels |-> i]
    ELSE
    LET voxel == GetVoxelFromBrick(b.brickIndex, mapPos)
        isWater == IsWater(voxel, b.waterColor)
        worldPos == Vec3(LAMBDA k : b.brickMin[k] + mapPos[k])
        \* dir.y = 0 is clamped to +1e-8: the first water branch, and the
        \* Euclidean length, kept as its square
        waterDistance ==
            IF b.rayDir[2] > 0
            THEN [kind |-> "t",
                  value |-> OverSafeDir(worldPos[2] * Scale - b.rayOrigin[2], b.rayDir[2])]
            ELSE IF b.rayDir[2] < 0
            THEN [kind |-> "t",
                  value |-> OverSafeDir((worldPos[2] + 1) * Scale - b.rayOrigin[2],
                                        b.rayDir[2])]
            ELSE LET d == Vec3(LAMBDA k : worldPos[k] * Scale + (Scale \div 2)
                                            - b.rayOrigin[k])
                 IN  [kind |-> "length", squared |-> d[1] * d[1] + d[2] * d[2] + d[3] * d[3]]
        afterWater ==
            IF voxel[4] > 0 /\ isWater /\ ~result.passedThroughWater
            THEN [result EXCEPT !.passedThroughWater = TRUE, !.waterDistance = waterDistance]
            ELSE result
    IN  IF voxel[4] > 0 /\ ~isWater
        THEN [found |-> TRUE,
              result |-> [result EXCEPT
                  !.hit = TRUE,
                  !.color = voxel,
                  !.pos = worldPos,
                  !.normal = Vec3(LAMBDA k : IF k = side + 1 THEN -b.step[k] ELSE 0),
                  !.distance = OverSafeDir(
                      worldPos[side + 1] * Scale - b.rayOrigin[side + 1]
                          + ((1 - b.step[side + 1]) \div 2) * Scale,
                      b.rayDir[side + 1])],
              voxels |-> i + 1]
        ELSE LET axis == DdaAxis(sideDist)
                 sideDist2 == [sideDist EXCEPT ![axis] = @ + b.deltaDist[axis]]
                 mapPos2 == [mapPos EXCEPT ![axis] = @ + b.step[axis]]
             IN  IF \E k \in 1..3 : mapPos2[k] < 0 \/ mapPos2[k] >= BRICK_SIZE
                 THEN [found |-> FALSE, result |-> afterWater, voxels |-> i + 1]
                 ELSE BrickLoop(b, i + 1, mapPos2, sideDist2, axis - 1, afterWater)

\* traceBrick. On a clamped axis startPos is rayOrigin + 1e-8 * tStart, less
\* than one thousandth beyond rayOrigin, and sideDist, which divides the
\* distance to the next voxel boundary by 1e-8, is that distance from
\* rayOrigin over 1e-8, less tStart.
TraceBrick(brickIndex, rayOrigin, rayDir, coarsePos, result, waterColor) ==
    LET brickMin == Vec3(LAMBDA k : coarsePos[k] * BRICK_SIZE * Scale)
        brickMax == Vec3(LAMBDA k : brickMin[k] + BRICK_SIZE * Scale)
        tMin == Vec3(LAMBDA k : OverSafeDir(brickMin[k] - rayOrigin[k], rayDir[k]))
        tMax == Vec3(LAMBDA k : OverSafeDir(brickMax[k] - rayOrigin[k], rayDir[k]))
        t1 == Vec3(LAMBDA k : Min2(tMin[k], tMax[k]))
        t2 == Vec3(LAMBDA k : Max2(tMin[k], tMax[k]))
        tNear == Max2(Max2(t1[1], t1[2]), t1[3])
        tFar == Min2(Min2(t2[1], t2[2]), t2[3])
    IN  IF tNear > tFar \/ tFar < 0
        THEN [found |-> FALSE, result |-> result, voxels |-> 0]
        ELSE
        LET side == IF t1[1] >= t1[2] /\ t1[1] >= t1[3] THEN 0
                    ELSE IF t1[2] >= t1[1] /\ t1[2] >= t1[3] THEN 1
                    ELSE 2
            tStart == Max2(0, tNear) + 1
            startPos == Vec3(LAMBDA k : rayOrigin[k] +
                            (IF rayDir[k] = 0 THEN tStart \div SafeDirInv
                             ELSE rayDir[k] * tStart))
            localStart == Vec3(LAMBDA k : startPos[k] - brickMin[k])
            mapPos == Vec3(LAMBDA k : Clamp(localStart[k] \div Scale, 0, BRICK_SIZE - 1))
            step == Vec3(LAMBDA k : StepOf(rayDir[k]))
            deltaDist == Vec3(LAMBDA k : IF rayDir[k] = 0 THEN Scale * SafeDirInv ELSE Scale)
            sideDist == Vec3(LAMBDA k :
                IF rayDir[k] = 0
                THEN (mapPos[k] * Scale - (rayOrigin[k] - brickMin[k]) + Scale) * SafeDirInv
                         - tStart
                ELSE step[k] * (mapPos[k] * Scale - localStart[k])
                         + ((step[k] + 1) \div 2) * Scale)
        IN  BrickLoop([brickIndex |-> brickIndex, rayOrigin |-> rayOrigin, rayDir |-> rayDir,
                       brickMin |-> Vec3(LAMBDA k : coarsePos[k] * BRICK_SIZE),
                       step |-> step, deltaDist |-> deltaDist, waterColor |-> waterColor],
                      0, mapPos, sideDist, side, result)

\* The DDA step to the next coarse cell, shared by traceRay and traceShadow:
\* the new <<coarsePos, sideDist>>.
CoarseStep(coarsePos, sideDist, step, deltaDist) ==
    LET axis == DdaAxis(sideDist)
    IN  <<[coarsePos EXCEPT ![axis] = @ + step[axis]],
          [sideDist EXCEPT ![axis] = @ + deltaDist[axis]]>>

OutsideGrid(coarsePos) ==
    \E k \in 1..3 : coarsePos[k] < 0 \/ coarsePos[k] >= coarseSize

\* Mutant of CoarseLoop: u_maxSteps is not consulted.
RECURSIVE CoarseLoopNoBudget(_, _, _, _, _)
CoarseLoopNoBudget(c, i, coarsePos, sideDist, result) ==
    IF i >= MaxCoarseSteps
    THEN result
    ELSE
    LET counted == [result EXCEPT !.steps = i + 1]
        brickIndex == GetBrickIndex(coarsePos)
        tb == IF brickIndex > 0
              THEN TraceBrick(brickIndex, c.origin, c.direction, coarsePos, counted,
                              c.waterColor)
              ELSE [found |-> FALSE, result |-> counted, voxels |-> 0]
        traced == [tb.result EXCEPT !.voxels = Max2(@, tb.voxels)]
        next == CoarseStep(coarsePos, sideDist, c.step, c.deltaDist)
    IN  IF tb.found THEN traced
        ELSE IF OutsideGrid(next[1]) THEN traced
        ELSE CoarseLoopNoBudget(c, i + 1, next[1], next[2], traced)

\* The coarse loop of traceRay. c holds the ray, step, deltaDist and the
\* uniforms u_maxSteps and u_waterColor. result.voxels is not a field of the
\* shader's HitResult: it records the largest number of voxels one traceBrick
\* call examined.
RECURSIVE CoarseLoop(_, _, _, _, _)
CoarseLoop(c, i, coarsePos, sideDist, result) ==
    IF i >= MaxCoarseSteps \/ i >= c.maxSteps
    THEN result
    ELSE
    LET counted == [result EXCEPT !.steps = i + 1]
        brickIndex == GetBrickIndex(coarsePos)
        tb == IF brickIndex > 0
              THEN TraceBrick(brickIndex, c.origin, c.direction, coarsePos, counted,
                              c.waterColor)
              ELSE [found |-> FALSE, result |-> counted, voxels |-> 0]
        traced == [tb.result EXCEPT !.voxels = Max2(@, tb.voxels)]
        next == CoarseStep(coarsePos, sideDist, c.step, c.deltaDist)
    IN  IF tb.found THEN traced
        ELSE IF OutsideGrid(next[1]) THEN traced
        ELSE CoarseLoop(c, i + 1, next[1], next[2], traced)

\* getWorldSize, in thousandths.
GetWorldSize == coarseSize * BRICK_SIZE * Scale

\* sideDist of the coarse DDA: (step * (coarsePos - coarseStart) + step * 0.5
\* + 0.5) * |BRICK_SIZE / safeDir| with coarseStart = startPos / BRICK_SIZE.
CoarseSideDist(coarsePos, startPos, direction) ==
    Vec3(LAMBDA k :
        (StepOf(direction[k]) * (coarsePos[k] * BRICK_SIZE * Scale - startPos[k])
            + ((StepOf(direction[k]) + 1) \div 2) * BRICK_SIZE * Scale)
        * (IF direction[k] = 0 THEN SafeDirInv ELSE 1))

CoarseDeltaDist(direction) ==
    Vec3(LAMBDA k : IF direction[k] = 0 THEN BRICK_SIZE * Scale * SafeDirInv
                    ELSE BRICK_SIZE * Scale)

\* traceRay under the uniforms u: [maxSteps, waterColor]. pos, color and
\* distance are not initialised by the shader; they are Null until a hit.
TraceRay(origin, direction, u) ==
    LET result == [hit |-> FALSE, steps |-> 0, normal |-> <<0, 0, 0>>,
                   passedThroughWater |-> FALSE,
                   waterDistance |-> [kind |-> "t", value |-> 0],
                   pos |-> Null, color |-> Null, distance |-> Null, voxels |-> 0]
        worldSize == GetWorldSize
        tBox == IntersectAABB(origin, direction, <<0, 0, 0>>,
                              <<worldSize, worldSize, worldSize>>)
    IN  IF tBox[1] > tBox[2] \/ tBox[2] < 0
        THEN result
        ELSE
        LET tStart == Max2(0, tBox[1]) + 1
            startPos == Vec3(LAMBDA k : origin[k] + direction[k] * tStart)
            coarsePos == Vec3(LAMBDA k :
                Clamp(startPos[k] \div (BRICK_SIZE * Scale), 0, coarseSize - 1))
        IN  CoarseLoop([origin |-> origin, direction |-> direction,
                        step |-> Vec3(LAMBDA k : StepOf(direction[k])),
                        deltaDist |-> CoarseDeltaDist(direction),
                        maxSteps |-> u.maxSteps, waterColor |-> u.waterColor],
                       0, coarsePos, CoarseSideDist(coarsePos, startPos, direction), result)

\* Mutant of ShadowLoop: any brick in a visited cell counts as an occluder.
RECURSIVE ShadowLoopAnyBrick(_, _, _, _, _)
ShadowLoopAnyBrick(c, i, coarsePos, sideDist, tempResult) ==
    IF i >= MaxShadowSteps THEN [value |-> 10, cells |-> i]
    ELSE IF OutsideGrid(coarsePos) THEN [value |-> 10, cells |-> i]
    ELSE
    LET brickIndex == GetBrickIndex(coarsePos)
        next == CoarseStep(coarsePos, sideDist, c.step, c.deltaDist)
    IN  IF brickIndex > 0 THEN [value |-> 3, cells |-> i + 1]
        ELSE ShadowLoopAnyBrick(c, i + 1, next[1], next[2], tempResult)

\* The loop of traceShadow. The value is the returned float in tenths (3 for
\* 0.3, 10 for 1.0) and the number of coarse cells whose brick id was read.
RECURSIVE ShadowLoop(_, _, _, _, _)
ShadowLoop(c, i, coarsePos, sideDist, tempResult) ==
    IF i >= MaxShadowSteps THEN [value |-> 10, cells |-> i]
    ELSE IF OutsideGrid(coarsePos) THEN [value |-> 10, cells |-> i]
    ELSE
    LET brickIndex == GetBrickIndex(coarsePos)
        tb == IF brickIndex > 0
              THEN TraceBrick(brickIndex, c.origin, c.direction, coarsePos, tempResult,
                              c.waterColor)
              ELSE [found |-> FALSE, result |-> tempResult, voxels |-> 0]
        next == CoarseStep(coarsePos, sideDist, c.step, c.deltaDist)
    IN  IF tb.found THEN [value |-> 3, cells |-> i + 1]
        ELSE ShadowLoop(c, i + 1, next[1], next[2], tb.result)

\* traceShadow. tempResult is declared without initialiser and only its hit
\* field is assigned; uninit is the value its passedThroughWater flag happens
\* to hold.
TraceShadow(origin, direction, u, uninit) ==
    LET startPos == Vec3(LAMBDA k : origin[k] + direction[k] * (Scale \div 2))
        coarsePos == Vec3(LAMBDA k : startPos[k] \div (BRICK_SIZE * Scale))
        tempResult == [hit |-> FALSE, steps |-> 0, normal |-> <<0, 0, 0>>,
                       passedThroughWater |-> uninit,
                       waterDistance |-> [kind |-> "t", value |-> 0],
                       pos |-> Null, color |-> Null, distance |-> Null, voxels |-> 0]
    IN  ShadowLoop([origin |-> origin, direction |-> direction,
                    step |-> Vec3(LAMBDA k : StepOf(direction[k])),
                    deltaDist |-> CoarseDeltaDist(direction),
                    waterColor |-> u.waterColor],
                   0, coarsePos, CoarseSideDist(coarsePos, startPos, direction), tempResult)

\* ----------------------------------------------------------- inputs
\* In-bounds coordinates setVoxel is driven with: the origin, its x
\* neighbour in the same brick, a voxel one brick and one step up the y
\* axis, and the far corner of the world.
InCoords ==
    {<<0, 0, 0>>, <<1, 0, 0>>, <<0, brickSize + 1, 0>>,
     <<WorldSize - 1, WorldSize - 1, WorldSize - 1>>}

\* One coordinate beyond each face of the world.
OutCoords ==
    {<<-1, 0, 0>>, <<WorldSize, 0, 0>>, <<0, -1, 0>>, <<0, WorldSize, 0>>,
     <<0, 0, -1>>, <<0, 0, WorldSize>>}

\* An opaque colour (a = 255, the default) and the erase value.
VoxelValues == {<<200, 10, 30, 255>>, <<0, 0, 0, 0>>}

\* The second opaque value, at the origin only, lets one opaque colour
\* overwrite another.
Inputs ==
    {<<p, v>> : p \in InCoords, v \in VoxelValues}
    \cup {<<<<0, 0, 0>>, <<30, 90, 170, 255>>>>}
    \cup {<<p, <<200, 10, 30, 255>>>> : p \in OutCoords}

\* The writes the ray-marcher specification builds its worlds from: the
\* opaque colour at every in-bounds input coordinate, the water colour at the
\* origin, and one erase.
RayInputs ==
    {<<p, <<200, 10, 30, 255>>>> : p \in InCoords}
    \cup {<<<<0, 0, 0>>, <<30, 90, 170, 255>>>>, <<<<0, brickSize + 1, 0>>, <<0, 0, 0, 0>>>>}

\* The centre of voxel p, in thousandths.
Centre(p) == Vec3(LAMBDA k : p[k] * Scale + (Scale \div 2))

Axis(k, s) == Vec3(LAMBDA j : IF j = k THEN s ELSE 0)

\* Axis-aligned rays through the centre of a written voxel that start one and
\* a half voxels outside the world box, pointing at the voxel or away from it.
AxisRays ==
    {<<[Centre(p) EXCEPT ![k] = IF s = 1 THEN -(Scale + Scale \div 2)
                                 ELSE GetWorldSize + Scale + Scale \div 2],
       Axis(k, s * away)>> :
        p \in InCoords, k \in 1..3, s \in {-1, 1}, away \in {-1, 1}}

Directions == ({-1, 0, 1} \X {-1, 0, 1} \X {-1, 0, 1}) \ {<<0, 0, 0>>}

\* Origins for rays of every direction: outside the corner at the origin, the
\* centre of the voxel at the origin, the centre of the world (a corner of
\* eight bricks) and the point of the world's top face above the centre of
\* the written voxel of the top layer.
FreeOrigins ==
    {<<-(Scale \div 2), -(Scale \div 2), -(Scale \div 2)>>,
     Centre(<<0, 0, 0>>),
     <<GetWorldSize \div 2, GetWorldSize \div 2, GetWorldSize \div 2>>,
     <<Scale \div 2, GetWorldSize, Scale \div 2>>}

Rays == AxisRays \cup (FreeOrigins \X Directions)

\* The water colour the game sets, in 255ths (WATER_COLOR), and the engine's
\* default, which disables the water test.
GameWaterColor == <<30, 90, 170>>
NoWaterColor == <<-255, -255, -255>>

\* The engine's default settings.maxSteps.
DefaultMaxSteps == 256

\* The uniforms of the game: the default step budget and the water colour.
GameUniforms == [maxSteps |-> DefaultMaxSteps, waterColor |-> GameWaterColor]

\* The primary rays traced: every ray under the game's uniforms, and the
\* axis-aligned rays also with a step budget of one coarse cell and with the
\* water test disabled.
RayQueries ==
    (Rays \X {GameUniforms})
    \cup (AxisRays \X {[maxSteps |-> 1, waterColor |-> GameWaterColor],
                       [maxSteps |-> DefaultMaxSteps, waterColor |-> NoWaterColor]})

\* The shadow rays traced.
ShadowQueries == Rays \X {GameUniforms}

\* The writes of the water specification: the opaque colour or the water
\* colour at each voxel of the column x = z = 0 that spans both bricks of
\* the y axis, and at the origin's x neighbour.
WaterCoords ==
    {<<0, 0, 0>>, <<0, 1, 0>>, <<0, brickSize, 0>>, <<0, brickSize + 1, 0>>, <<1, 0, 0>>}

WaterInputs ==
    {<<p, v>> : p \in WaterCoords, v \in {<<200, 10, 30, 255>>, <<30, 90, 170, 255>>}}

\* Rays through the water column: straight up and down it from outside the
\* world and from inside its end voxels, level rays through the two voxels
\* at the origin from either side, and two diagonals in the plane z = 0.5
\* that cross two voxels of the column, one rising and one falling.
WaterRays ==
    {<<<<Scale \div 2, -(Scale + Scale \div 2), Scale \div 2>>, <<0, 1, 0>>>>,
     <<<<Scale \div 2, GetWorldSize + Scale + Scale \div 2, Scale \div 2>>, <<0, -1, 0>>>>,
     <<Centre(<<0, 0, 0>>), <<0, 1, 0>>>>,
     <<Centre(<<0, brickSize + 1, 0>>), <<0, -1, 0>>>>,
     <<<<-(Scale + Scale \div 2), Scale \div 2, Scale \div 2>>, <<1, 0, 0>>>>,
     <<<<GetWorldSize + Scale + Scale \div 2, Scale \div 2, Scale \div 2>>, <<-1, 0, 0>>>>,
     <<<<-((3 * Scale) \div 4), -(Scale \div 2), Scale \div 2>>, <<1, 1, 0>>>>,
     <<<<-((3 * Scale) \div 4), 2 * Scale + Scale \div 2, Scale \div 2>>, <<1, -1, 0>>>>}

WaterQueries == WaterRays \X {GameUniforms}

\* ------------------------------------------------------------ specification
\* The state createWorld leaves: an empty world, a zero coarse texture
\* (uploaded from the fresh coarse grid) and a zero-initialised atlas texture.
CreateWorld ==
    /\ coarseSize = CoarseSize
    /\ brickSize = BRICK_SIZE
    /\ atlasSize \in 1..MaxAtlasSize
    /\ coarseGrid = [i \in 0..(CoarseSize * CoarseSize * CoarseSize - 1) |-> 0]
    /\ bricks = <<>>
    /\ nextBrickIndex = 1
    /\ brickCount = 0
    /\ voxelCount = 0
    /\ dirtyBricks = <<>>
    /\ coarseGridDirty = FALSE
    /\ coarseGridTexture = [t \in (0..(CoarseSize - 1)) \X (0..(CoarseSize - 1))
                                  \X (0..(CoarseSize - 1)) |-> 0]
    /\ brickAtlasTexture = [t \in (0..(atlasSize * BRICK_SIZE - 1))
                                  \X (0..(atlasSize * BRICK_SIZE - 1))
                                  \X (0..(atlasSize * BRICK_SIZE - 1)) |-> <<0, 0, 0, 0>>]
    /\ glError = FALSE
    /\ last = [op |-> "createWorld", args |-> <<>>, ret |-> <<>>, slots |-> <<>>]
    /\ nWrites = 0

\* createWorld, with the history variables empty. The history variables
\* follow the calls, not the code: ref takes the
\* value of every in-bounds write and is emptied by clear; touched collects
\* the brick of the coarse cell of every in-bounds write.
Init ==
    /\ CreateWorld
    /\ ref = [p \in (0..(CoarseSize * BRICK_SIZE - 1)) \X (0..(CoarseSize * BRICK_SIZE - 1))
                     \X (0..(CoarseSize * BRICK_SIZE - 1)) |-> <<0, 0, 0, 0>>]
    /\ touched = {}
    /\ gamePhase = "init"
    /\ pass = Null

\* createWorld(coarseSize, brickSize) with a brick edge of the caller's
\* choice: the world and the textures are sized by world.brickSize.
CreateWorldWith(edge) ==
    /\ coarseSize = CoarseSize
    /\ brickSize = edge
    /\ atlasSize \in 1..MaxAtlasSize
    /\ coarseGrid = [i \in 0..(CoarseSize * CoarseSize * CoarseSize - 1) |-> 0]
    /\ bricks = <<>>
    /\ nextBrickIndex = 1
    /\ brickCount = 0
    /\ voxelCount = 0
    /\ dirtyBricks = <<>>
    /\ coarseGridDirty = FALSE
    /\ coarseGridTexture = [t \in (0..(CoarseSize - 1)) \X (0..(CoarseSize - 1))
                                  \X (0..(CoarseSize - 1)) |-> 0]
    /\ brickAtlasTexture = [t \in (0..(atlasSize * edge - 1))
                                  \X (0..(atlasSize * edge - 1))
                                  \X (0..(atlasSize * edge - 1)) |-> <<0, 0, 0, 0>>]
    /\ glError = FALSE
    /\ last = [op |-> "createWorld", args |-> <<>>, ret |-> <<>>, slots |-> <<>>]
    /\ nWrites = 0

\* The brick edges createWorld is called with: the shader's and its two
\* neighbours.
BrickEdges == {BRICK_SIZE - 1, BRICK_SIZE, BRICK_SIZE + 1}

InitBrick ==
    \E edge \in BrickEdges :
        /\ CreateWorldWith(edge)
        /\ ref = [p \in (0..(CoarseSize * edge - 1)) \X (0..(CoarseSize * edge - 1))
                         \X (0..(CoarseSize * edge - 1)) |-> <<0, 0, 0, 0>>]
        /\ touched = {}
        /\ gamePhase = "init"
        /\ pass = Null

HistorySetVoxel ==
    LET p == <<last'.args[1], last'.args[2], last'.args[3]>> IN
    IF p \in DOMAIN ref
    THEN /\ ref' = [ref EXCEPT ![p] = <<last'.args[4], last'.args[5], last'.args[6],
                                        last'.args[7]>>]
         /\ touched' = touched \cup
                {coarseGrid'[(p[1] \div brickSize) + (p[2] \div brickSize) * coarseSize
                             + (p[3] \div brickSize) * coarseSize * coarseSize]}
    ELSE UNCHANGED <<ref, touched>>

DoSetVoxel ==
    /\ \E i \in Inputs :
           SetVoxel(i[1][1], i[1][2], i[1][3], i[2][1], i[2][2], i[2][3], i[2][4])
    /\ HistorySetVoxel
    /\ UNCHANGED ctlVars

DoClear ==
    /\ Clear
    /\ ref' = [p \in DOMAIN ref |-> <<0, 0, 0, 0>>]
    /\ touched' = {}
    /\ UNCHANGED ctlVars

DoGetDirtyBricksAndClear ==
    /\ GetDirtyBricksAndClear
    /\ touched' = {}
    /\ UNCHANGED ref
    /\ UNCHANGED ctlVars

DoUploadWorld ==
    /\ UploadWorld
    /\ touched' = {}
    /\ UNCHANGED ref
    /\ UNCHANGED ctlVars

DoUploadDirtyBricks ==
    /\ UploadDirtyBricks
    /\ touched' = {}
    /\ UNCHANGED ref
    /\ UNCHANGED ctlVars

DoSetVoxelIn ==
    /\ \E i \in RayInputs :
           SetVoxel(i[1][1], i[1][2], i[1][3], i[2][1], i[2][2], i[2][3], i[2][4])
    /\ HistorySetVoxel
    /\ UNCHANGED ctlVars

\* A primary ray of the frame rendered after a completed sync.
DoTraceRay ==
    /\ last.op \in {"uploadWorld", "uploadDirtyBricks"}
    /\ \E q \in RayQueries :
           last' = [op |-> "traceRay", args |-> <<q[1][1], q[1][2], q[2]>>,
                    ret |-> TraceRay(q[1][1], q[1][2], q[2]), slots |-> <<>>]
    /\ UNCHANGED <<worldVars, gpuVars, nWrites, ref, touched, ctlVars>>

\* A shadow ray of the frame rendered after a completed sync.
DoTraceShadow ==
    /\ last.op \in {"uploadWorld", "uploadDirtyBricks"}
    /\ \E q \in ShadowQueries : \E uninit \in BOOLEAN :
           last' = [op |-> "traceShadow", args |-> <<q[1][1], q[1][2], q[2]>>,
                    ret |-> TraceShadow(q[1][1], q[1][2], q[2], uninit), slots |-> <<>>]
    /\ UNCHANGED <<worldVars, gpuVars, nWrites, ref, touched, ctlVars>>

DoSetVoxelWater ==
    /\ \E i \in WaterInputs :
           SetVoxel(i[1][1], i[1][2], i[1][3], i[2][1], i[2][2], i[2][3], i[2][4])
    /\ HistorySetVoxel
    /\ UNCHANGED ctlVars

\* A primary ray through the water column, after a completed sync.
DoTraceWater ==
    /\ last.op = "uploadWorld"
    /\ \E q \in WaterQueries :
           last' = [op |-> "traceRay", args |-> <<q[1][1], q[1][2], q[2]>>,
                    ret |-> TraceRay(q[1][1], q[1][2], q[2]), slots |-> <<>>]
    /\ UNCHANGED <<worldVars, gpuVars, nWrites, ref, touched, ctlVars>>

\* ----------------------------------------------------------- SeaCaveGame
\* _isWaterVoxel of the game: the colour range that counts as water.
IsWaterVoxel(v) ==
    /\ v[1] >= 25 /\ v[1] <= 40
    /\ v[2] >= 80 /\ v[2] <= 100
    /\ v[3] >= 160 /\ v[3] <= 180

\* The voxels _raycastVoxel can return for some eye position and view
\* direction: it walks the primary store with getVoxel and stops at the first
\* occupied voxel that is not water.
RaycastHits ==
    {p \in WorldCoords :
        LET voxel == GetVoxel(p[1], p[2], p[3])
        IN  voxel # Null /\ voxel[4] > 0 /\ ~IsWaterVoxel(voxel)}

\* Mutant of AttemptMine: the voxel is destroyed and nothing is uploaded.
AttemptMineNoUpload ==
    \/ /\ last' = [op |-> "attemptMine", args |-> <<>>, ret |-> FALSE, slots |-> <<>>]
       /\ UNCHANGED <<worldVars, gpuVars, nWrites, ref, touched, ctlVars>>
    \/ \E hit \in RaycastHits :
          LET c == WorldToCoarse(hit[1], hit[2], hit[3])
              l == WorldToLocal(hit[1], hit[2], hit[3])
              result == GetOrCreateBrick(c[1], c[2], c[3])
              idx == GetBrickLocalIndex(l[1], l[2], l[3])
          IN  /\ UNCHANGED <<coarseSize, brickSize, atlasSize, voxelCount, gpuVars, ctlVars>>
              /\ coarseGrid' = result.coarseGrid
              /\ nextBrickIndex' = result.nextBrickIndex
              /\ brickCount' = result.brickCount
              /\ bricks' = [result.bricks EXCEPT ![result.index] =
                                WriteVoxel(@, idx, 0, 0, 0, 0)]
              /\ nWrites' = nWrites + 1
              /\ dirtyBricks' = SetAdd(result.dirtyBricks, result.index)
              /\ coarseGridDirty' = result.coarseGridDirty
              /\ last' = [op |-> "attemptMine", args |-> <<hit[1], hit[2], hit[3], 0, 0, 0, 0>>,
                          ret |-> TRUE, slots |-> <<>>]
              /\ ref' = [ref EXCEPT ![hit] = EmptyVoxel]
              /\ touched' = touched \cup {result.index}

\* _attemptMine, the mousedown handler: no voxel in range, or setVoxel(hit,
\* 0, 0, 0, 0) followed at once by uploadDirtyBricks, which drains the dirty
\* state setVoxel left and copies from the world as written.
AttemptMine ==
    \/ /\ last' = [op |-> "attemptMine", args |-> <<>>, ret |-> FALSE, slots |-> <<>>]
       /\ UNCHANGED <<worldVars, gpuVars, nWrites, ref, touched, ctlVars>>
    \/ \E hit \in RaycastHits :
          LET c == WorldToCoarse(hit[1], hit[2], hit[3])
              l == WorldToLocal(hit[1], hit[2], hit[3])
              result == GetOrCreateBrick(c[1], c[2], c[3])
              idx == GetBrickLocalIndex(l[1], l[2], l[3])
              dirty == SetAdd(result.dirtyBricks, result.index)
              coarseDirty == result.coarseGridDirty
          IN  /\ UNCHANGED <<coarseSize, brickSize, atlasSize, ctlVars>>
              /\ coarseGrid' = result.coarseGrid
              /\ nextBrickIndex' = result.nextBrickIndex
              /\ brickCount' = result.brickCount
              /\ bricks' = [result.bricks EXCEPT ![result.index] =
                                WriteVoxel(@, idx, 0, 0, 0, 0)]
              /\ nWrites' = nWrites + 1
              /\ dirtyBricks' = <<>>
              /\ coarseGridDirty' = FALSE
              /\ coarseGridTexture' = IF coarseDirty THEN CoarseTexImage(result.coarseGrid)
                                      ELSE coarseGridTexture
              /\ \E acc \in {[tex |-> brickAtlasTexture, err |-> glError, slots |-> <<>>]} :
                 \E drained \in {dirty} :
                     /\ brickAtlasTexture' = (UploadBricks(acc, drained).tex)'
                     /\ glError' = (UploadBricks(acc, drained).err)'
                     /\ last' = [op |-> "attemptMine",
                                 args |-> <<hit[1], hit[2], hit[3], 0, 0, 0, 0>>,
                                 ret |-> TRUE,
                                 slots |-> (UploadBricks(acc, drained).slots)']
              /\ voxelCount' = CountVoxels'
              /\ ref' = [ref EXCEPT ![hit] = EmptyVoxel]
              /\ touched' = {}

\* init(): the generators fill the world with setVoxel calls.
GameGenerate ==
    /\ gamePhase = "init"
    /\ DoSetVoxel

\* init(): the one uploadWorld, after which run() starts the frame loop.
GameUploadWorld ==
    /\ gamePhase = "init"
    /\ UploadWorld
    /\ touched' = {}
    /\ gamePhase' = "run"
    /\ UNCHANGED <<ref, pass>>

\* One frame of run(): render() draws from the two textures.
Render ==
    /\ gamePhase = "run"
    /\ last' = [op |-> "render", args |-> <<>>, ret |-> <<>>, slots |-> <<>>]
    /\ UNCHANGED <<worldVars, gpuVars, nWrites, ref, touched, ctlVars>>

Next ==
    \/ DoSetVoxel
    \/ DoClear
    \/ DoGetDirtyBricksAndClear
    \/ DoUploadWorld
    \/ DoUploadDirtyBricks

Spec == Init /\ [][Next]_vars

\* The engine's protocol: the dirty set is drained only inside uploadDirtyBricks.
NextEngine ==
    \/ DoSetVoxel
    \/ DoClear
    \/ DoUploadWorld
    \/ DoUploadDirtyBricks

SpecEngine == Init /\ [][NextEngine]_vars

\* The ray marcher: worlds built by in-bounds writes, synced, and queried.
NextRay ==
    \/ DoSetVoxelIn
    \/ DoUploadWorld
    \/ DoTraceRay
    \/ DoTraceShadow

SpecRay == Init /\ [][NextRay]_vars

\* Worlds of any brick edge, written and synced.
NextBrick ==
    \/ DoSetVoxelIn
    \/ DoUploadWorld
    \/ DoUploadDirtyBricks

SpecBrick == InitBrick /\ [][NextBrick]_vars

\* The game: generation, the full upload, then frames and mining clicks.
NextGame ==
    \/ GameGenerate
    \/ GameUploadWorld
    \/ AttemptMine
    \/ Render

SpecGame == Init /\ [][NextGame]_vars

\* Water: worlds of water and opaque voxels, synced and crossed by rays.
\* setVoxel landing before, between and after the statements of
\* uploadDirtyBricks.
NextPass ==
    \/ DoSetVoxel
    \/ UploadDirtyBricksBegin
    \/ UploadDirtyBricksCoarse
    \/ UploadDirtyBricksCopy
    \/ UploadDirtyBricksEnd

SpecPass == Init /\ [][NextPass]_vars

NextWater ==
    \/ DoSetVoxelWater
    \/ DoUploadWorld
    \/ DoTraceWater

SpecWater == Init /\ [][NextWater]_vars

\* ------------------------------------------------------------------ claims
\* The primary payload of brick id at a local cell, as RGBA.
PrimaryVoxel(id, l) ==
    LET i == (l[1] + l[2] * brickSize + l[3] * brickSize * brickSize) * 4
    IN  <<bricks[id][i], bricks[id][i + 1], bricks[id][i + 2], bricks[id][i + 3]>>

\* What a mirror-only reader finds for brick id: its atlas slot, texel by texel.
MirrorBrickEquals(id) ==
    \A l \in LocalCells : GetVoxelFromBrick(id, l) = PrimaryVoxel(id, l)

MirrorCoarseEquals ==
    \A c \in CoarseCells :
        coarseGridTexture[c] = coarseGrid[c[1] + c[2] * coarseSize + c[3] * coarseSize * coarseSize]

IsSetVoxelStep == nWrites' = nWrites + 1

ArgPos(l) == <<l.args[1], l.args[2], l.args[3]>>

ArgValue(l) == <<l.args[4], l.args[5], l.args[6], l.args[7]>>

InWorld(p) ==
    /\ p[1] >= 0 /\ p[1] < coarseSize * brickSize
    /\ p[2] >= 0 /\ p[2] < coarseSize * brickSize
    /\ p[3] >= 0 /\ p[3] < coarseSize * brickSize

CellOf(p) ==
    (p[1] \div brickSize) + (p[2] \div brickSize) * coarseSize
    + (p[3] \div brickSize) * coarseSize * coarseSize

\* C1: after an incrementalSync (uploadDirtyBricks) that follows any sequence
\* of writes and syncs, and while the brick count is within the atlas
\* capacity, the mirror slot of every brick reachable from the coarse grid
\* equals the primary payload byte for byte.
C1_MirrorEquivalence ==
    (last.op = "uploadDirtyBricks" /\ brickCount <= MaxBricks) =>
        \A i \in DOMAIN coarseGrid :
            coarseGrid[i] # 0 => MirrorBrickEquals(coarseGrid[i])

\* Two bricks in a two-wide atlas, written around an earlier sync, synced again.
C1_Witness ==
    /\ last.op = "uploadDirtyBricks"
    /\ atlasSize = 2
    /\ brickCount = 2
    /\ nWrites = 3
    /\ last.ret = 1
    /\ \A id \in {1, 2} : \E l \in LocalCells : PrimaryVoxel(id, l)[4] = 255

\* C2: an in-bounds setVoxel returns true and getVoxel at that coordinate then
\* returns exactly the value written (alpha 255 by default), also when the
\* coordinate held another value before: the last write wins.
C2_RoundTrip ==
    (last.op = "setVoxel" /\ InWorld(ArgPos(last))) =>
        /\ last.ret = TRUE
        /\ GetVoxel(last.args[1], last.args[2], last.args[3]) = ArgValue(last)

\* An opaque write over another opaque colour that an earlier sync recorded.
C2_Witness ==
    /\ last.op = "setVoxel"
    /\ ArgPos(last) = <<0, 0, 0>>
    /\ ArgValue(last) = <<30, 90, 170, 255>>
    /\ GetBrickIndex(<<0, 0, 0>>) # 0
    /\ GetVoxelFromBrick(GetBrickIndex(<<0, 0, 0>>), <<0, 0, 0>>) = <<200, 10, 30, 255>>
    /\ GetVoxel(0, 0, 0) = <<30, 90, 170, 255>>

\* C3: getDirtyBricksAndClear returns exactly the ids of the bricks written
\* since the dirty state was last emptied, each once, and called again with no
\* write in between it returns no brick and coarseGridDirty = false.
C3_DirtySet ==
    [][(last'.op = "getDirtyBricksAndClear") =>
          /\ Range(last'.ret.bricks) = touched
          /\ Len(last'.ret.bricks) = Cardinality(touched)
          /\ dirtyBricks' = <<>>
          /\ coarseGridDirty' = FALSE
          /\ (last.op = "getDirtyBricksAndClear" =>
                 /\ last'.ret.bricks = <<>>
                 /\ last'.ret.coarseGridDirty = FALSE)]_vars

\* Three writes touching two bricks, then a drain that returns both ids.
C3_Witness ==
    /\ last.op = "getDirtyBricksAndClear"
    /\ nWrites = 3
    /\ Len(last.ret.bricks) = 2
    /\ Range(last.ret.bricks) = {1, 2}

\* C4: a setVoxel with a coordinate outside the world returns false and
\* changes no field of the world.
C4_OutOfBoundsNoMutation ==
    [][(IsSetVoxelStep /\ ~InWorld(ArgPos(last'))) =>
          /\ last'.ret = FALSE
          /\ UNCHANGED <<coarseGrid, bricks, brickCount, nextBrickIndex, dirtyBricks,
                         coarseGridDirty>>]_vars

\* A rejected write into a world that holds bricks and pending dirty marks.
C4_Witness ==
    /\ last.op = "setVoxel"
    /\ ~InWorld(ArgPos(last))
    /\ last.ret = FALSE
    /\ brickCount = 2
    /\ Len(dirtyBricks) = 1

ProbeCoords == (-1..(CoarseSize * BRICK_SIZE)) \X (-1..(CoarseSize * BRICK_SIZE))
                   \X (-1..(CoarseSize * BRICK_SIZE))

\* C5: getVoxel returns null exactly for the coordinates outside the world;
\* inside it returns the empty voxel where the coarse cell has no brick and
\* the value last written there otherwise.
C5_GetVoxelTotal ==
    \A p \in ProbeCoords :
        /\ (GetVoxel(p[1], p[2], p[3]) = Null) <=> ~InWorld(p)
        /\ InWorld(p) =>
              IF coarseGrid[CellOf(p)] = 0
              THEN GetVoxel(p[1], p[2], p[3]) = <<0, 0, 0, 0>>
              ELSE GetVoxel(p[1], p[2], p[3]) = ref[p]

\* Two bricks, the origin's coarse cell still empty, one voxel opaque and its
\* neighbour in the same brick never written.
C5_Witness ==
    /\ brickCount = 2
    /\ coarseGrid[0] = 0
    /\ GetVoxel(0, 0, 0) = <<0, 0, 0, 0>>
    /\ GetVoxel(0, brickSize + 1, 0) = <<200, 10, 30, 255>>
    /\ GetVoxel(0, brickSize, 0) = <<0, 0, 0, 0>>

\* C6: a successful setVoxel into a coarse cell without a brick raises the
\* brick count by exactly 1; into a cell that has a brick it changes neither
\* the brick count nor the cell's brick id.
C6_AllocationIdempotence ==
    [][(IsSetVoxelStep /\ last'.ret = TRUE) =>
          LET c == CellOf(ArgPos(last')) IN
          IF coarseGrid[c] = 0
          THEN brickCount' = brickCount + 1 /\ coarseGrid'[c] # 0
          ELSE brickCount' = brickCount /\ coarseGrid'[c] = coarseGrid[c]]_vars

\* Two voxels written into the same coarse cell: one brick.
C6_Witness ==
    /\ last.op = "setVoxel"
    /\ last.ret = TRUE
    /\ brickCount = 1
    /\ ref[<<0, 0, 0>>][4] = 255
    /\ ref[<<1, 0, 0>>][4] = 255

\* C7: after fullSync (uploadWorld) the mirror coarse grid equals the primary
\* coarse grid, every brick with id within the atlas capacity has a mirror
\* slot equal to its payload, and nothing is dirty.
C7_FullSync ==
    (last.op = "uploadWorld") =>
        /\ MirrorCoarseEquals
        /\ \A id \in DOMAIN bricks : id <= MaxBricks => MirrorBrickEquals(id)
        /\ dirtyBricks = <<>>
        /\ coarseGridDirty = FALSE

\* A full sync of three non-empty bricks into the two-wide atlas.
C7_Witness ==
    /\ last.op = "uploadWorld"
    /\ atlasSize = 2
    /\ brickCount = 3
    /\ \A id \in {1, 2, 3} : \E l \in LocalCells : PrimaryVoxel(id, l)[4] = 255

\* C8: after every completed synchronization the mirror coarse grid equals
\* the primary coarse grid cell for cell, also for the first incrementalSync
\* after clear(), which leaves every mirror coarse cell 0.
C8_CoarseMirror ==
    (last.op \in {"uploadWorld", "uploadDirtyBricks"}) => MirrorCoarseEquals

\* An incrementalSync of a cleared world whose atlas still holds old voxels.
C8_Witness ==
    /\ last.op = "uploadDirtyBricks"
    /\ brickCount = 0
    /\ \A c \in CoarseCells : coarseGridTexture[c] = 0
    /\ \E t \in DOMAIN brickAtlasTexture : brickAtlasTexture[t][4] = 255

\* The world coordinate of local cell l of coarse cell c.
WorldPos(c, l) == <<c[1] * brickSize + l[1], c[2] * brickSize + l[2], c[3] * brickSize + l[3]>>

\* C9: after a synchronization, every voxel of a brick whose id is beyond the
\* atlas capacity is still read from the primary store as written, while the
\* mirror-only query (getBrickIndex, then getVoxelFromBrick) finds it empty.
C9_CapacityBoundary ==
    (last.op \in {"uploadWorld", "uploadDirtyBricks"}) =>
        \A c \in CoarseCells :
            coarseGrid[CellOf(WorldPos(c, <<0, 0, 0>>))] > MaxBricks =>
                \A l \in LocalCells :
                    /\ GetVoxel(WorldPos(c, l)[1], WorldPos(c, l)[2], WorldPos(c, l)[3])
                           = ref[WorldPos(c, l)]
                    /\ GetVoxelFromBrick(GetBrickIndex(c), l) = <<0, 0, 0, 0>>

\* Brick atlasSize^3 + 1 holds an opaque voxel and the world has been synced.
C9_Witness ==
    /\ last.op \in {"uploadWorld", "uploadDirtyBricks"}
    /\ brickCount = MaxBricks + 1
    /\ \E c \in CoarseCells : \E l \in LocalCells :
          /\ coarseGrid[CellOf(WorldPos(c, <<0, 0, 0>>))] = MaxBricks + 1
          /\ GetBrickIndex(c) = MaxBricks + 1
          /\ GetVoxel(WorldPos(c, l)[1], WorldPos(c, l)[2], WorldPos(c, l)[3])[4] = 255

\* C10: incrementalSync hands no atlas slot outside [0, atlasSize)^3 to the
\* GPU and records no error, whatever the ids of the dirty bricks.
C10_SilentOmission ==
    (last.op = "uploadDirtyBricks") =>
        /\ \A i \in DOMAIN last.slots :
              \A k \in 1..3 : last.slots[i][k] >= 0 /\ last.slots[i][k] < atlasSize
        /\ glError = FALSE

\* C11: after clear() every coarse cell is 0, the brick table is empty, the
\* brick count is 0, the next brick id is 1, no brick id is pending in the
\* dirty set, and getVoxel returns the empty voxel for every in-bounds
\* coordinate, the coordinates set before included.
C11_ClearResets ==
    (last.op = "clear") =>
        /\ \A i \in DOMAIN coarseGrid : coarseGrid[i] = 0
        /\ bricks = <<>>
        /\ brickCount = 0
        /\ nextBrickIndex = 1
        /\ dirtyBricks = <<>>
        /\ \A p \in WorldCoords : GetVoxel(p[1], p[2], p[3]) = EmptyVoxel

\* A clear of a world whose three writes had been synced: the mirror still
\* shows three bricks and an opaque voxel at a coordinate that now reads empty.
C11_Witness ==
    /\ last.op = "clear"
    /\ nWrites = 3
    /\ \E c \in CoarseCells : coarseGridTexture[c] = 3
    /\ GetVoxelFromBrick(GetBrickIndex(<<0, 0, 0>>), <<0, 0, 0>>)[4] = 255
    /\ GetVoxel(0, 0, 0) = EmptyVoxel

\* What a query that reads only the mirror finds at local cell l of coarse
\* cell c.
MirrorQuery(c, l) == GetVoxelFromBrick(GetBrickIndex(c), l)

IsSync(l) == l.op \in {"uploadWorld", "uploadDirtyBricks"}

\* C17: setVoxel and clear never change the mirror; the coarse-grid texture
\* and the brick atlas change only inside uploadWorld and uploadDirtyBricks, so
\* between two syncs a mirror query returns the same result whatever was
\* written to the primary store.
C17_MirrorFrame ==
    [][/\ (IsSetVoxelStep \/ last'.op = "clear") =>
              UNCHANGED <<coarseGridTexture, brickAtlasTexture>>
       /\ (coarseGridTexture' # coarseGridTexture \/ brickAtlasTexture' # brickAtlasTexture)
              => IsSync(last')
       /\ ~IsSync(last') =>
              \A c \in CoarseCells : \A l \in LocalCells :
                  (MirrorQuery(c, l))' = MirrorQuery(c, l)]_vars

\* An erase after a sync: the primary store reads empty at the origin, the
\* mirror still answers with the synced colour.
C17_Witness ==
    /\ last.op = "setVoxel"
    /\ ArgPos(last) = <<0, 0, 0>>
    /\ ArgValue(last) = EmptyVoxel
    /\ GetVoxel(0, 0, 0) = EmptyVoxel
    /\ MirrorQuery(<<0, 0, 0>>, <<0, 0, 0>>) = <<200, 10, 30, 255>>
    /\ dirtyBricks = <<1>>

\* The brick id whose atlas slot is pos.
SlotId(pos) == 1 + pos[1] + pos[2] * atlasSize + pos[3] * atlasSize * atlasSize

\* Texel t lies in the atlas slot of brick id.
InSlot(t, id) ==
    \A k \in 1..3 : t[k] \div brickSize = GetBrickAtlasPos(id)[k]

\* C18: uploadDirtyBricks copies exactly the drained dirty state: one
\* texSubImage3D per brick written since the last sync and none for any other
\* brick, the coarse grid if and only if coarseGridDirty was set, and with
\* nothing dirty it copies nothing and returns 0.
C18_IncrementalSync ==
    [][(last'.op = "uploadDirtyBricks") =>
          LET copied == [i \in DOMAIN last'.slots |-> SlotId(last'.slots[i])] IN
          /\ Range(copied) = touched
          /\ Len(copied) = Cardinality(touched)
          /\ last'.ret = Cardinality(touched)
          /\ last'.coarse = coarseGridDirty
          /\ coarseGridDirty => MirrorCoarseEquals'
          /\ ~coarseGridDirty => coarseGridTexture' = coarseGridTexture
          /\ \A t \in DOMAIN brickAtlasTexture :
                 (\A id \in touched : ~InSlot(t, id)) =>
                     brickAtlasTexture'[t] = brickAtlasTexture[t]
          /\ \A id \in touched : id <= MaxBricks => MirrorBrickEquals(id)'
          /\ (touched = {} /\ ~coarseGridDirty) =>
                 /\ last'.ret = 0
                 /\ last'.slots = <<>>
                 /\ UNCHANGED <<coarseGridTexture, brickAtlasTexture>>]_vars

\* Three writes into two bricks, then one incremental sync: two bricks and
\* the coarse grid copied.
C18_Witness ==
    /\ last.op = "uploadDirtyBricks"
    /\ nWrites = 3
    /\ last.ret = 2
    /\ Len(last.slots) = 2
    /\ last.coarse = TRUE
    /\ ref[<<0, 0, 0>>][4] = 255
    /\ ref[<<1, 0, 0>>][4] = 255

\* C19: between createWorld (or clear) and the next clear, a coarse cell that
\* has become nonzero keeps its brick id: no setVoxel (writes with alpha 0
\* included), sync or drain changes it or returns it to 0.
C19_CoarseCellIrreversible ==
    [][(last'.op # "clear") =>
          \A i \in DOMAIN coarseGrid :
              coarseGrid[i] # 0 => coarseGrid'[i] = coarseGrid[i]]_vars

\* An erase of the only voxel of a synced brick: the brick is all empty and
\* its coarse cell still holds the id the mirror recorded.
C19_Witness ==
    /\ last.op = "setVoxel"
    /\ ArgPos(last) = <<0, brickSize + 1, 0>>
    /\ ArgValue(last) = EmptyVoxel
    /\ coarseGrid[CellOf(ArgPos(last))] # 0
    /\ coarseGridTexture[<<0, 1, 0>>] = coarseGrid[CellOf(ArgPos(last))]
    /\ MirrorQuery(<<0, 1, 0>>, <<0, 1, 0>>)[4] = 255
    /\ \A l \in LocalCells : PrimaryVoxel(coarseGrid[CellOf(ArgPos(last))], l) = EmptyVoxel

\* C20: brick ids are allocated monotonically: the n-th brick allocated since
\* createWorld or the last clear gets id n, nextBrickIndex never decreases
\* between clears, and no id is handed out twice or held by two coarse cells.
C20_MonotonicIds ==
    [][(last'.op # "clear") =>
          /\ nextBrickIndex' >= nextBrickIndex
          /\ (brickCount' # brickCount) =>
                 /\ brickCount' = brickCount + 1
                 /\ nextBrickIndex' = nextBrickIndex + 1
                 /\ Cardinality({i \in DOMAIN coarseGrid :
                                    coarseGrid[i] = 0 /\ coarseGrid'[i] = brickCount'}) = 1
          /\ \A i \in DOMAIN coarseGrid :
                 (coarseGrid[i] = 0 /\ coarseGrid'[i] # 0) =>
                     /\ coarseGrid'[i] = brickCount'
                     /\ coarseGrid'[i] \notin Range(coarseGrid)
                     /\ coarseGrid'[i] \notin DOMAIN bricks
          /\ \A i, j \in DOMAIN coarseGrid :
                 (i # j /\ coarseGrid'[i] # 0) => coarseGrid'[i] # coarseGrid'[j]]_vars

\* Two bricks allocated after a clear, ids 1 and 2 again, while the mirror
\* still shows id 1 at a cell the primary store has emptied.
C20_Witness ==
    /\ last.op = "setVoxel"
    /\ brickCount = 2
    /\ nextBrickIndex = 3
    /\ Range(coarseGrid) = {0, 1, 2}
    /\ \E c \in CoarseCells :
          /\ coarseGridTexture[c] = 1
          /\ coarseGrid[CellOf(WorldPos(c, <<0, 0, 0>>))] = 0

\* ------------------------------------------------- ray-marcher claims
\* The voxel the mirror holds at world coordinate p, as the shader reads it.
MirrorVoxel(p) ==
    GetVoxelFromBrick(
        GetBrickIndex(<<p[1] \div BRICK_SIZE, p[2] \div BRICK_SIZE, p[3] \div BRICK_SIZE>>),
        <<p[1] % BRICK_SIZE, p[2] % BRICK_SIZE, p[3] % BRICK_SIZE>>)

\* Occupied and not exempt: opaque and not of the water colour.
Solid(p, u) == MirrorVoxel(p)[4] > 0 /\ ~IsWater(MirrorVoxel(p), u.waterColor)

\* The brute-force reference: the ray o + t * d, t >= 0, against the unit
\* cube of voxel p, with the direction as given (a zero component is zero).
\* Lo and Hi are the entry and exit parameters over the moving axes.
Lo(o, d, p) ==
    LET lo(k) == IF d[k] = 0 THEN 0
                 ELSE Min2((p[k] * Scale - o[k]) * d[k], ((p[k] + 1) * Scale - o[k]) * d[k])
    IN  Max2(Max2(lo(1), lo(2)), Max2(lo(3), 0))

Hi(o, d, p) ==
    LET big == 100 * Scale
        hi(k) == IF d[k] = 0 THEN big
                 ELSE Max2((p[k] * Scale - o[k]) * d[k], ((p[k] + 1) * Scale - o[k]) * d[k])
    IN  Min2(Min2(hi(1), hi(2)), hi(3))

\* The ray passes through the inside of voxel p.
Crosses(o, d, p) ==
    /\ \A k \in 1..3 : d[k] = 0 => (p[k] * Scale < o[k] /\ o[k] < (p[k] + 1) * Scale)
    /\ Lo(o, d, p) < Hi(o, d, p)

\* The ray meets the closed cube of voxel p.
Touches(o, d, p) ==
    /\ \A k \in 1..3 : d[k] = 0 => (p[k] * Scale <= o[k] /\ o[k] <= (p[k] + 1) * Scale)
    /\ Lo(o, d, p) <= Hi(o, d, p)

RayOrigin == last.args[1]
RayDirection == last.args[2]
RayUniforms == last.args[3]

\* C12: when traceRay returns hit = true at voxel v, v is occupied, not
\* exempt and on the ray, and the ray crosses no occupied non-exempt voxel of
\* the mirror before v; and when the ray crosses an occupied non-exempt voxel
\* and the step budget covers the whole grid, the result is hit = true.
C12_NearestHit ==
    (last.op = "traceRay") =>
        /\ last.ret.hit =>
              /\ last.ret.pos \in WorldCoords
              /\ Solid(last.ret.pos, RayUniforms)
              /\ Touches(RayOrigin, RayDirection, last.ret.pos)
              /\ \A p \in WorldCoords :
                     (Solid(p, RayUniforms) /\ Crosses(RayOrigin, RayDirection, p)) =>
                         Lo(RayOrigin, RayDirection, p)
                             >= Lo(RayOrigin, RayDirection, last.ret.pos)
        /\ (/\ RayUniforms.maxSteps >= 3 * coarseSize
            /\ \E p \in WorldCoords :
                   Solid(p, RayUniforms) /\ Crosses(RayOrigin, RayDirection, p))
              => last.ret.hit


\* The diagonal from outside the corner at the origin: through the water
\* voxel at the origin and four coarse cells to the opaque far corner.
C12_Witness ==
    /\ last.op = "traceRay"
    /\ RayDirection = <<1, 1, 1>>
    /\ RayUniforms = GameUniforms
    /\ last.ret.hit
    /\ last.ret.pos = <<WorldSize - 1, WorldSize - 1, WorldSize - 1>>
    /\ last.ret.passedThroughWater
    /\ last.ret.steps = 3 * coarseSize - 2
    /\ Crosses(RayOrigin, RayDirection, <<0, 0, 0>>)
    /\ MirrorVoxel(<<0, 0, 0>>)[4] = 255


\* The forward half-line o + t * d, t >= 0, meets the half-open world box
\* [0, worldEdge)^3. On a moving axis the admissible t form an interval with
\* one open end; over doubled parameters every such interval is a closed
\* integer interval, and the intervals meet exactly if the reals do.
MeetsWorldBox(o, d) ==
    LET lo(k) == IF d[k] = 1 THEN -2 * o[k]
                 ELSE IF d[k] = -1 THEN 2 * (o[k] - GetWorldSize) + 1
                 ELSE 0
        hi(k) == IF d[k] = 1 THEN 2 * (GetWorldSize - o[k]) - 1
                 ELSE IF d[k] = -1 THEN 2 * o[k]
                 ELSE 200 * Scale
    IN  /\ \A k \in 1..3 : d[k] = 0 => (0 <= o[k] /\ o[k] < GetWorldSize)
        /\ Max2(Max2(lo(1), lo(2)), Max2(lo(3), 0)) <= Min2(Min2(hi(1), hi(2)), hi(3))

\* C14: when the forward half-line of the ray does not meet the world box
\* [0, worldEdge)^3, traceRay returns hit = false with steps = 0, whatever the
\* mirror holds.
C14_NoHitOutside ==
    (last.op = "traceRay" /\ ~MeetsWorldBox(RayOrigin, RayDirection)) =>
        (~last.ret.hit /\ last.ret.steps = 0)


\* The mirror holds exactly one occupied voxel, p, and p is not exempt.
SingleVoxel(p, u) ==
    /\ Solid(p, u)
    /\ \A q \in WorldCoords : q # p => MirrorVoxel(q)[4] = 0

\* An axis-aligned ray that starts outside the world box and points at voxel
\* p: it runs along axis k through the inside of p's cross-section, towards p.
PointsAt(o, d, p) ==
    \E k \in 1..3 :
        /\ d[k] # 0
        /\ \A j \in 1..3 : j # k => d[j] = 0
        /\ o[k] < 0 \/ o[k] >= GetWorldSize
        /\ (p[k] * Scale - o[k]) * d[k] > 0
        /\ \A j \in 1..3 : j # k => (p[j] * Scale < o[j] /\ o[j] < (p[j] + 1) * Scale)

\* C13: for a mirror holding a single occupied non-water voxel and an
\* axis-aligned ray that starts outside the world box and points at it (the
\* step budget covering the grid's edge), traceRay returns hit = true, the
\* voxel's coordinates, the stored colour, the unit normal opposite to the
\* direction and the distance from the origin to the voxel's entry face.
C13_AxisAlignedHit ==
    (last.op = "traceRay" /\ RayUniforms.maxSteps >= coarseSize) =>
        \A p \in WorldCoords :
            (SingleVoxel(p, RayUniforms) /\ PointsAt(RayOrigin, RayDirection, p)) =>
                /\ last.ret.hit
                /\ last.ret.pos = p
                /\ last.ret.color = MirrorVoxel(p)
                /\ last.ret.normal = Vec3(LAMBDA k : -RayDirection[k])
                /\ last.ret.distance = Lo(RayOrigin, RayDirection, p)

\* The spec's traversal example at the model's scale: one voxel in the upper
\* brick of the y axis, seen from one and a half voxels above the world.
C13_Witness ==
    /\ last.op = "traceRay"
    /\ RayUniforms = GameUniforms
    /\ RayDirection = <<0, -1, 0>>
    /\ RayOrigin = <<Scale \div 2, GetWorldSize + Scale + Scale \div 2, Scale \div 2>>
    /\ SingleVoxel(<<0, brickSize + 1, 0>>, RayUniforms)
    /\ last.ret.hit
    /\ last.ret.pos = <<0, brickSize + 1, 0>>
    /\ last.ret.normal = <<0, 1, 0>>
    /\ last.ret.color = <<200, 10, 30, 255>>
    /\ last.ret.distance = Scale + Scale \div 2

\* C15: traceRay visits at most min(512, maxSteps) coarse cells and at most
\* 3 * BRICK_SIZE voxels inside a brick, steps never exceeds min(512,
\* maxSteps), and when the budget ends the traversal before the cell where a
\* larger budget finds the hit, the result is hit = false, as for no-hit.
C15_StepBudget ==
    (last.op = "traceRay") =>
        LET budget == Min2(MaxCoarseSteps, RayUniforms.maxSteps)
            full == TraceRay(RayOrigin, RayDirection,
                             [RayUniforms EXCEPT !.maxSteps = MaxCoarseSteps])
        IN  /\ last.ret.steps <= budget
            /\ last.ret.voxels <= 3 * BRICK_SIZE
            /\ full.steps > budget =>
                  (~last.ret.hit /\ last.ret.steps = budget /\ last.ret.pos = Null)
            /\ full.steps <= budget => last.ret = full

\* A budget of one coarse cell on a ray whose only occupied voxel lies in the
\* second cell it crosses.
C15_Witness ==
    /\ last.op = "traceRay"
    /\ RayUniforms.maxSteps = 1
    /\ last.ret.steps = 1
    /\ ~last.ret.hit
    /\ \E p \in WorldCoords :
          Solid(p, RayUniforms) /\ Crosses(RayOrigin, RayDirection, p)

\* traceShadow's start position and coarse cell.
ShadowStart(o, d) == Vec3(LAMBDA k : o[k] + d[k] * (Scale \div 2))

ShadowStartInGrid(o, d) ==
    \A k \in 1..3 : 0 <= ShadowStart(o, d)[k] /\ ShadowStart(o, d)[k] < GetWorldSize

\* C16: traceShadow returns 0.3 or 1.0 and reads at most 64 coarse cells: 1.0
\* when its start cell is outside the grid, 0.3 only when the ray meets an
\* occupied non-exempt voxel, and 0.3 whenever the start cell is in the grid
\* and the ray crosses such a voxel from the start position on.
C16_ShadowValues ==
    (last.op = "traceShadow") =>
        /\ last.ret.value \in {3, 10}
        /\ last.ret.cells <= MaxShadowSteps
        /\ ~ShadowStartInGrid(RayOrigin, RayDirection) =>
              (last.ret.value = 10 /\ last.ret.cells = 0)
        /\ last.ret.value = 3 =>
              \E p \in WorldCoords :
                  Solid(p, RayUniforms) /\ Touches(RayOrigin, RayDirection, p)
        /\ (/\ ShadowStartInGrid(RayOrigin, RayDirection)
            /\ \E p \in WorldCoords :
                   /\ Solid(p, RayUniforms)
                   /\ Crosses(ShadowStart(RayOrigin, RayDirection), RayDirection, p))
              => last.ret.value = 3

\* A shadow ray from the centre of the world that finds the far corner voxel
\* in the last of the four cells it reads, past a brick it misses.
C16_Witness ==
    /\ last.op = "traceShadow"
    /\ RayDirection = <<1, 1, 1>>
    /\ last.ret.value = 3
    /\ ShadowStartInGrid(RayOrigin, RayDirection)
    /\ Solid(<<WorldSize - 1, WorldSize - 1, WorldSize - 1>>, RayUniforms)
    /\ \E p \in WorldCoords :
          MirrorVoxel(p)[4] > 0 /\ ~Touches(RayOrigin, RayDirection, p)

\* ------------------------------------------------------- water claims
\* Occupied and of the water colour.
WaterAt(p, u) == MirrorVoxel(p)[4] > 0 /\ IsWater(MirrorVoxel(p), u.waterColor)

\* The occupied non-water voxels the ray crosses, and the first of them.
SolidsOn(o, d, u) == {p \in WorldCoords : Solid(p, u) /\ Crosses(o, d, p)}

IsFirstOf(p, S, o, d) == p \in S /\ \A q \in S : Lo(o, d, p) <= Lo(o, d, q)

\* The water voxels the ray crosses before its first occupied non-water voxel.
WatersOn(o, d, u) ==
    {w \in WorldCoords :
        /\ WaterAt(w, u)
        /\ Crosses(o, d, w)
        /\ \A p \in SolidsOn(o, d, u) : Lo(o, d, w) < Lo(o, d, p)}

\* The crossing distance of water voxel w: the ray parameter of its bottom
\* face for a rising ray and of its top face for a falling one, and the
\* distance from the origin to its centre (as a square) for a level ray.
CrossingDistance(o, d, w) ==
    IF d[2] > 0 THEN [kind |-> "t", value |-> (w[2] * Scale - o[2]) * d[2]]
    ELSE IF d[2] < 0 THEN [kind |-> "t", value |-> ((w[2] + 1) * Scale - o[2]) * d[2]]
    ELSE [kind |-> "length",
          squared |-> (w[1] * Scale + (Scale \div 2) - o[1]) * (w[1] * Scale + (Scale \div 2) - o[1])
                    + (w[2] * Scale + (Scale \div 2) - o[2]) * (w[2] * Scale + (Scale \div 2) - o[2])
                    + (w[3] * Scale + (Scale \div 2) - o[3]) * (w[3] * Scale + (Scale \div 2) - o[3])]

\* C22: when a ray passes through water-coloured voxels, passedThroughWater
\* is set and waterDistance is the crossing distance of the first of them;
\* later water voxels on the ray, in the same brick or in later bricks, leave
\* it unchanged, and the traversal goes on to the first occupied non-water
\* voxel behind.
C22_FirstWaterCrossing ==
    (last.op = "traceRay") =>
        LET waters == WatersOn(RayOrigin, RayDirection, RayUniforms)
            solids == SolidsOn(RayOrigin, RayDirection, RayUniforms)
        IN  /\ last.ret.passedThroughWater <=> waters # {}
            /\ \A w \in waters :
                   IsFirstOf(w, waters, RayOrigin, RayDirection) =>
                       last.ret.waterDistance = CrossingDistance(RayOrigin, RayDirection, w)
            /\ (waters # {} /\ solids # {}) =>
                   /\ last.ret.hit
                   /\ IsFirstOf(last.ret.pos, solids, RayOrigin, RayDirection)
            /\ (waters # {} /\ solids = {}) => ~last.ret.hit

\* A rising ray from below the world: water at the origin, water again in
\* the next brick, and the opaque voxel above it, which is the hit; the
\* distance recorded is that of the bottom face of the first water voxel.
C22_Witness ==
    /\ last.op = "traceRay"
    /\ RayDirection = <<0, 1, 0>>
    /\ RayOrigin[2] < 0
    /\ WaterAt(<<0, 0, 0>>, RayUniforms)
    /\ WaterAt(<<0, brickSize, 0>>, RayUniforms)
    /\ last.ret.hit
    /\ last.ret.pos = <<0, brickSize + 1, 0>>
    /\ last.ret.passedThroughWater
    /\ last.ret.waterDistance = [kind |-> "t", value |-> Scale + Scale \div 2]
    /\ CrossingDistance(RayOrigin, RayDirection, <<0, brickSize, 0>>)
           # last.ret.waterDistance

\* The direction test of traceBrick's first water branch, safeRayDir.y > 0:
\* a rising ray, or a level one, whose y component is clamped to +1e-8.
Qualifying(d) == d[2] >= 0

\* The occupied voxels the ray crosses that are not water met in the
\* qualifying direction.
TerminatingOn(o, d, u) ==
    {p \in WorldCoords :
        /\ MirrorVoxel(p)[4] > 0
        /\ Crosses(o, d, p)
        /\ ~(IsWater(MirrorVoxel(p), u.waterColor) /\ Qualifying(d))}

C24_SameBrickEdge ==
    (IsSync(last) /\ brickCount <= MaxBricks) =>
        /\ GetWorldSize = WorldSize * Scale
        /\ \A p \in WorldCoords : MirrorVoxel(p) = GetVoxel(p[1], p[2], p[3])

\* ------------------------------------------------- atlas and store claims
\* C21: for every brick id in 1..atlasSize^3, getBrickAtlasPos returns
\* (x, y, z) with each component in [0, atlasSize) and x + y * atlasSize +
\* z * atlasSize^2 = id - 1, distinct ids get distinct slots, and buildAtlas
\* and the shader's brickIndexToAtlasPos compute the same (x, y, z).
C21_AtlasSlotMapping ==
    /\ \A id \in 1..MaxBricks :
           LET pos == GetBrickAtlasPos(id) IN
           /\ \A k \in 1..3 : pos[k] >= 0 /\ pos[k] < atlasSize
           /\ pos[1] + pos[2] * atlasSize + pos[3] * atlasSize * atlasSize = id - 1
           /\ BuildAtlasPos(id) = pos
           /\ BrickIndexToAtlasPos(id) = pos
    /\ \A id1, id2 \in 1..MaxBricks :
           id1 # id2 => GetBrickAtlasPos(id1) # GetBrickAtlasPos(id2)
    /\ (last.op = "uploadDirtyBricks" /\ brickCount <= MaxBricks) =>
           \A i \in DOMAIN last.slots :
               \A k \in 1..3 : last.slots[i][k] >= 0 /\ last.slots[i][k] < atlasSize

\* Three bricks in the two-wide atlas: brick 3 is copied to slot (0, 1, 0) by
\* an incremental sync and the shader reads its voxel from that slot.
C21_Witness ==
    /\ last.op = "uploadDirtyBricks"
    /\ atlasSize = 2
    /\ brickCount = 3
    /\ <<0, 1, 0>> \in Range(last.slots)
    /\ \E l \in LocalCells :
          /\ PrimaryVoxel(3, l)[4] = 255
          /\ brickAtlasTexture[<<l[1], BRICK_SIZE + l[2], l[3]>>] = PrimaryVoxel(3, l)


\* C25: in the game every voxel edit is synchronized before it can be
\* rendered: at every render() call the dirty set is empty, the coarse grid is
\* not dirty, the mirror coarse grid equals the primary one and every brick
\* within the atlas capacity has a mirror slot equal to its payload.
C25_RenderSeesSyncedWorld ==
    (last.op = "render") =>
        /\ dirtyBricks = <<>>
        /\ coarseGridDirty = FALSE
        /\ MirrorCoarseEquals
        /\ \A id \in DOMAIN bricks : id <= MaxBricks => MirrorBrickEquals(id)
        /\ brickCount <= MaxBricks =>
               \A p \in WorldCoords : MirrorVoxel(p) = GetVoxel(p[1], p[2], p[3])

\* A frame after a mining click: three voxels were generated and uploaded by
\* init(), the one at the origin has been mined, and both the primary store
\* and the mirror read empty there while the other two are opaque in both.
C25_Witness ==
    /\ last.op = "render"
    /\ nWrites = MaxWrites + 1
    /\ brickCount = 2
    /\ atlasSize = 2
    /\ GetVoxel(0, 0, 0) = EmptyVoxel
    /\ MirrorVoxel(<<0, 0, 0>>) = EmptyVoxel
    /\ GetVoxel(1, 0, 0)[4] = 255
    /\ MirrorVoxel(<<1, 0, 0>>) = GetVoxel(1, 0, 0)
    /\ GetVoxel(0, brickSize + 1, 0)[4] = 255
    /\ MirrorVoxel(<<0, brickSize + 1, 0>>) = GetVoxel(0, brickSize + 1, 0)

\* ------------------------------------------------- store invariants

\* C26: a setVoxel with alpha 0 into a coarse cell that has no brick still
\* allocates: the cell receives the next brick id, the new brick is all zero,
\* nextBrickIndex and brickCount go up by one, the id joins the dirty set and
\* the coarse grid is marked dirty, while getVoxel returns what it returned
\* before at every coordinate of the world.
C26_EraseAllocates ==
    [][(/\ IsSetVoxelStep
        /\ last'.op = "setVoxel"
        /\ last'.ret = TRUE
        /\ ArgValue(last') = EmptyVoxel
        /\ coarseGrid[CellOf(ArgPos(last'))] = 0) =>
          /\ nextBrickIndex \notin DOMAIN bricks
          /\ coarseGrid' = [coarseGrid EXCEPT ![CellOf(ArgPos(last'))] = nextBrickIndex]
          /\ DOMAIN bricks' = DOMAIN bricks \cup {nextBrickIndex}
          /\ bricks'[nextBrickIndex] = ZeroBrick
          /\ nextBrickIndex' = nextBrickIndex + 1
          /\ brickCount' = brickCount + 1
          /\ nextBrickIndex \in Range(dirtyBricks')
          /\ coarseGridDirty' = TRUE
          /\ \A p \in WorldCoords :
                 GetVoxel(p[1], p[2], p[3])' = GetVoxel(p[1], p[2], p[3])]_vars

\* An erase into the second brick's cell of a synced world: the cell now holds
\* id 2, brick 2 is all zero and dirty, and the world reads as it did after
\* the sync.
C26_Witness ==
    /\ last.op = "setVoxel"
    /\ last.ret = TRUE
    /\ ArgPos(last) = <<0, brickSize + 1, 0>>
    /\ ArgValue(last) = EmptyVoxel
    /\ brickCount = 2
    /\ nextBrickIndex = 3
    /\ coarseGrid[CellOf(ArgPos(last))] = 2
    /\ bricks[2] = ZeroBrick
    /\ dirtyBricks = <<2>>
    /\ coarseGridDirty = TRUE
    /\ coarseGridTexture[<<0, 1, 0>>] = 0
    /\ nWrites = 2
    /\ GetVoxel(0, 0, 0)[4] = 255
    /\ \A p \in WorldCoords : GetVoxel(p[1], p[2], p[3]) = ref[p]


\* C27: in every reachable state the nonzero values of the coarse grid are
\* exactly the keys of the brick table, which are exactly 1..brickCount;
\* nextBrickIndex is brickCount + 1; no two coarse cells hold the same brick
\* id; and every id in the dirty set is a key of the brick table.
C27_StoreStructure ==
    /\ Range(coarseGrid) \ {0} = DOMAIN bricks
    /\ DOMAIN bricks = 1..brickCount
    /\ nextBrickIndex = brickCount + 1
    /\ \A i, j \in DOMAIN coarseGrid :
           (i # j /\ coarseGrid[i] # 0) => coarseGrid[i] # coarseGrid[j]
    /\ Range(dirtyBricks) \subseteq DOMAIN bricks

\* Three bricks in three coarse cells, the first two synced and the third
\* still dirty.
C27_Witness ==
    /\ brickCount = 3
    /\ nextBrickIndex = 4
    /\ DOMAIN bricks = {1, 2, 3}
    /\ Cardinality({i \in DOMAIN coarseGrid : coarseGrid[i] # 0}) = 3
    /\ dirtyBricks = <<3>>
    /\ last.op = "setVoxel"
    /\ Cardinality({c \in CoarseCells : coarseGridTexture[c] # 0}) = 2


\* C28: in every state reached by setVoxel, clear, uploadWorld and
\* uploadDirtyBricks run one after another, every allocated brick with id at
\* most atlasSize^3 that is not in the dirty set has an atlas slot equal to
\* its payload, and while coarseGridDirty is false the coarse-grid texture
\* equals the coarse grid.
C28_SyncInvariant ==
    /\ \A id \in DOMAIN bricks :
           (id <= MaxBricks /\ id \notin Range(dirtyBricks)) => MirrorBrickEquals(id)
    /\ (coarseGridDirty = FALSE) => MirrorCoarseEquals

\* Two synced bricks, then a write into the first: brick 1 is dirty and its
\* slot is stale, brick 2 is clean and its slot holds its opaque voxel, and
\* the coarse grid is clean and mirrored.
C28_Witness ==
    /\ last.op = "setVoxel"
    /\ atlasSize = 2
    /\ brickCount = 2
    /\ dirtyBricks = <<1>>
    /\ ~MirrorBrickEquals(1)
    /\ MirrorBrickEquals(2)
    /\ \E l \in LocalCells : PrimaryVoxel(2, l)[4] = 255
    /\ coarseGridDirty = FALSE
    /\ MirrorCoarseEquals
    /\ Range(coarseGrid) = {0, 1, 2}


\* ------------------------------------------------- interleaved sync

\* The ids and the coarse flag an uploadDirtyBricks call in progress has
\* drained and not yet copied.
PassPending == IF pass = Null THEN {} ELSE Range(pass.dirtyBricks)

PassCoarsePending == pass # Null /\ pass.pc = "coarse" /\ pass.coarseGridDirty

\* C29: with setVoxel landing at any point of an uploadDirtyBricks call, a
\* brick (id at most atlasSize^3) whose slot differs from its payload is in the
\* dirty set or still to be copied by the call in progress, and a coarse-grid
\* texture that differs from the coarse grid has coarseGridDirty set or its
\* upload still to come; so a call during which no setVoxel landed returns
\* with every such slot equal to its brick, the coarse-grid texture equal to
\* the coarse grid, and, within the atlas capacity, the mirror and getVoxel
\* agreeing at every coordinate.
C29_NoLostUpdate ==
    /\ \A id \in DOMAIN bricks :
           (id <= MaxBricks /\ id \notin Range(dirtyBricks) /\ id \notin PassPending)
               => MirrorBrickEquals(id)
    /\ (coarseGridDirty = FALSE /\ ~PassCoarsePending) => MirrorCoarseEquals
    /\ (last.op = "uploadDirtyBricks" /\ last.landed = 0) =>
           /\ \A id \in DOMAIN bricks : id <= MaxBricks => MirrorBrickEquals(id)
           /\ MirrorCoarseEquals
           /\ brickCount <= MaxBricks =>
                  \A p \in WorldCoords : MirrorVoxel(p) = GetVoxel(p[1], p[2], p[3])

\* The call after one during which a setVoxel landed: it found brick 1
\* marked and the coarse grid clean, copied the brick, and the voxel written
\* during the earlier call reads the same in the mirror and in the store.
C29_Witness ==
    /\ last.op = "uploadDirtyBricks"
    /\ last.landed = 0
    /\ last.prev = 1
    /\ last.ret = 1
    /\ last.coarse = FALSE
    /\ last.slots = <<<<0, 0, 0>>>>
    /\ pass = Null
    /\ nWrites = 2
    /\ GetVoxel(0, 0, 0)[4] = 255
    /\ GetVoxel(1, 0, 0)[4] = 255
    /\ MirrorVoxel(<<1, 0, 0>>) = GetVoxel(1, 0, 0)
    /\ MirrorVoxel(<<0, 0, 0>>) = GetVoxel(0, 0, 0)


\* C30: a setVoxel that returns true at coordinate p leaves what getVoxel
\* returns at every other in-bounds coordinate unchanged, also when the write
\* allocates the brick of p's coarse cell: the other voxels of that cell read
\* as the empty sentinel before and after.
C30_SetVoxelFrame ==
    [][(IsSetVoxelStep /\ last'.op = "setVoxel" /\ last'.ret = TRUE) =>
          /\ \A q \in WorldCoords \ {ArgPos(last')} :
                 GetVoxel(q[1], q[2], q[3])' = GetVoxel(q[1], q[2], q[3])
          /\ coarseGrid[CellOf(ArgPos(last'))] = 0 =>
                 \A q \in WorldCoords \ {ArgPos(last')} :
                     CellOf(q) = CellOf(ArgPos(last')) =>
                         /\ GetVoxel(q[1], q[2], q[3]) = EmptyVoxel
                         /\ GetVoxel(q[1], q[2], q[3])' = EmptyVoxel]_vars

\* An opaque write that allocated the second brick next to an occupied first
\* one: the written voxel is the only occupied voxel of its cell and the
\* voxels of the first brick read as they were written.
C30_Witness ==
    /\ last.op = "setVoxel"
    /\ last.ret = TRUE
    /\ ArgPos(last) = <<0, brickSize + 1, 0>>
    /\ ArgValue(last)[4] = 255
    /\ nWrites = 3
    /\ brickCount = 2
    /\ coarseGrid[CellOf(ArgPos(last))] = 2
    /\ GetVoxel(0, 0, 0)[4] = 255
    /\ GetVoxel(1, 0, 0)[4] = 255
    /\ \A q \in WorldCoords \ {ArgPos(last)} :
           CellOf(q) = CellOf(ArgPos(last)) => GetVoxel(q[1], q[2], q[3]) = EmptyVoxel
    /\ \A q \in WorldCoords : GetVoxel(q[1], q[2], q[3]) = ref[q]

====
